---- MODULE Spec2Model ----
(***************************************************************************)
(* Iridium modem driver: the AT protocol engine (Modem.c) and the API      *)
(* layer above it (ModemAPI.c), modelled as a cooperative state machine.   *)
(* Every C function that changes state is an operator from a state record  *)
(* to a state record; an action applies one public operation to the        *)
(* current state.                                                           *)
(***************************************************************************)
EXTENDS Integers, Sequences, FiniteSets, TLC

\* ------------------------------------------------------------------ bounds
\* Number of lines in the aux board configuration file being programmed.
MaxCfgLines == 2
\* Cap of the observation counter of consecutive re-sends.
MaxResend == 6
\* Cap of the observation counter of the dispatches of one report file.
MaxFileSends == 6

\* --------------------------------------------------------------- constants
MDM_Q_LEN == 10
DEFAULT_RETRY_COUNT == 5
DEFAULT_CSQ_DEBOUNCE_RETRIES == 3

AT_CMD_STATES ==
    { "AT_CMD_POWERED_DOWN", "AT_CMD_INITTING", "AT_CMD_IDLE", "AT_CMD_SENDING",
      "AT_CMD_RCVING", "AT_CMD_PGMING", "AT_CMD_SUCCESS", "AT_CMD_FAILED",
      "AT_CMD_TIMED_OUT" }

TerminalStates == { "AT_CMD_SUCCESS", "AT_CMD_FAILED", "AT_CMD_TIMED_OUT" }

InFlightStates == { "AT_CMD_SENDING", "AT_CMD_RCVING", "AT_CMD_PGMING" }

modem_responses == { "MR_FAILED", "MR_SUCCESS", "MR_WAITING", "MR_NO_RESP" }

mailboxcheck_rsp == { "NO_MSG", "SUCCESSFUL_MSG", "FAILED_MSG" }

modem_states == { "MODEM_POWERED_DOWN", "MODEM_INITTING", "MODEM_IDLE", "MODEM_BUSY" }

\* The commands that can wait in the queue.
AuxCmds ==
    { "RINGER_ON", "RINGER_OFF", "RINGER_STATUS", "RELAY1_ON", "RELAY1_OFF",
      "RELAY2_ON", "RELAY2_OFF", "RELAY1_STATUS", "RELAY2_STATUS",
      "UPLOAD_CIS_CONFIG", "CONFIGURE_CIS", "RESET_CIS", "CALL_HANGUP" }

MODEM_COMMANDS ==
    { "NO_CMD", "TXING_TEXT", "TXING_BUFFER", "TXING_FILE", "RXING_FILE",
      "MAILBOX_CHECK", "GATEWAY_CHECK", "GETTING_CSQ", "CALL_STATUS" } \cup AuxCmds

\* Commands carried out by the aux board (CALL_HANGUP is a modem command
\* that shares the queue).
CISCmds == AuxCmds \ { "CALL_HANGUP" }

\* Timers stopped by value 0; 1 and 2 are the two phases of an armed timer
\* (a restart of an armed timer changes the phase).
EngineTimers == { "thRespTimeOut", "thCISRespTimeOut" }

ApiTimers ==
    { "thCheckCSQ", "thCheckRetryDelay", "thWaitForCalls", "thCheckGateway",
      "thCheckCallStatus", "thTimeout" }

VARIABLES
    \* Modem.c
    ATCmdState, subState, errorCodeRsp, bPrevVoiceState,
    byMTStatus, bRingersOn, bRelayOn,
    thRespTimeOut, thCISRespTimeOut,
    \* hardware and collaborators
    cisPort, cfgIndex, modemRunning, cisPowered, dsr,
    \* ModemAPI.c
    modemState, prevModemState, ModemCmd, ModemRsp,
    modemQBuff, wReadIndex, wWriteIndex,
    byFileSendRetryCount, byFileReceiveRetryCount, byCSQDebounceCount,
    bSendingEnabled, bInTransparentMode,
    thCheckCSQ, thCheckRetryDelay, thWaitForCalls, thCheckGateway,
    thCheckCallStatus, thTimeout,
    \* observation of the last step
    atCmdState, obs, sent, resends, ret,
    \* Modem.c: the data of the exchanges and the serial port
    modemInfo, byBinMsgBuffer, rxQueue, byRxBuffer,
    \* observation: the bytes of the binary write of the last step, and the
    \* payload last accepted for upload
    txBytes, payload,
    \* observation: the entries of the system log written in the last step
    sysLog,
    \* Modem.c: the MT message being read
    wRxDataCount, wCalculatedCheckSum, RxMsg,
    \* observation: calls of the last step that the properties speak of,
    \* each with its argument and the value returned
    calls,
    \* observation: the number of times the report file that is still in
    \* the outbox has been dispatched
    fileSends,
    \* Modem.c: GetDualResponse has read the first end-of-line byte
    bFoundFirstEOL,
    \* ModemAPI.c: modemOptions.bPrevHookState
    bPrevHookState,
    \* ModemLog.c: the entries of the record queue that are not yet written
    recordQ,
    \* observation: the hook entries the log accepted since the last edge
    \* of DSR of each direction
    hookLog

vars ==
    << ATCmdState, subState, errorCodeRsp, byMTStatus,
       bRingersOn, bRelayOn,
       thRespTimeOut, thCISRespTimeOut, cisPort, cfgIndex, modemRunning,
       cisPowered, dsr, modemState, prevModemState, ModemCmd, ModemRsp,
       modemQBuff, wReadIndex, wWriteIndex, byFileSendRetryCount,
       byFileReceiveRetryCount, byCSQDebounceCount, bSendingEnabled,
       bInTransparentMode, thCheckCSQ, thCheckRetryDelay, thWaitForCalls,
       thCheckGateway, thCheckCallStatus, thTimeout, atCmdState, obs, sent,
       resends, ret, modemInfo, byBinMsgBuffer, rxQueue, byRxBuffer, txBytes,
       payload, sysLog, wRxDataCount, wCalculatedCheckSum, RxMsg, calls,
       bPrevVoiceState, fileSends, bFoundFirstEOL, bPrevHookState, recordQ,
       hookLog >>

\* ret records the function the layer above called in the step, if the
\* scenario observes it, and the BOOL it returned.
NoRet == [fn |-> "none", ok |-> FALSE]

\* The data fields of modemInfo after ClearModemInfo.
NoModemInfo ==
    [dwTxMsgLen |-> 0, byMOStatus |-> 0, szMOMSN |-> <<>>, szMTMSN |-> <<>>,
     wMTLength |-> 0, byMTQueueNbr |-> 0, byRAFlag |-> 0, iSignalStrength |-> -1]

\* The receive buffer after ClearRxBinaryDataVars: every byte is zero.  The
\* length word wRxMsgLen overlays the first two bytes of pbyRxMsg; bytes
\* past the end of the sequence are zero.
NoRxMsg == [pbyRxMsg |-> <<>>, wRxMsgLen |-> 0]

\* The current state as one record, so that the C functions compose.
Cur ==
    [ ATCmdState |-> ATCmdState, subState |-> subState,
      errorCodeRsp |-> errorCodeRsp, byMTStatus |-> byMTStatus,
      bRingersOn |-> bRingersOn, bRelayOn |-> bRelayOn,
      thRespTimeOut |-> thRespTimeOut, thCISRespTimeOut |-> thCISRespTimeOut,
      cisPort |-> cisPort, cfgIndex |-> cfgIndex, modemRunning |-> modemRunning,
      cisPowered |-> cisPowered, dsr |-> dsr,
      modemState |-> modemState, prevModemState |-> prevModemState,
      ModemCmd |-> ModemCmd, ModemRsp |-> ModemRsp, modemQBuff |-> modemQBuff,
      wReadIndex |-> wReadIndex, wWriteIndex |-> wWriteIndex,
      byFileSendRetryCount |-> byFileSendRetryCount,
      byFileReceiveRetryCount |-> byFileReceiveRetryCount,
      byCSQDebounceCount |-> byCSQDebounceCount,
      bSendingEnabled |-> bSendingEnabled,
      bInTransparentMode |-> bInTransparentMode,
      thCheckCSQ |-> thCheckCSQ, thCheckRetryDelay |-> thCheckRetryDelay,
      thWaitForCalls |-> thWaitForCalls, thCheckGateway |-> thCheckGateway,
      thCheckCallStatus |-> thCheckCallStatus, thTimeout |-> thTimeout,
      atCmdState |-> atCmdState, obs |-> obs, sent |-> <<>>,
      resends |-> resends, ret |-> NoRet,
      modemInfo |-> modemInfo, byBinMsgBuffer |-> byBinMsgBuffer,
      rxQueue |-> rxQueue, byRxBuffer |-> byRxBuffer, txBytes |-> <<>>,
      payload |-> payload, sysLog |-> <<>>,
      wRxDataCount |-> wRxDataCount,
      wCalculatedCheckSum |-> wCalculatedCheckSum, RxMsg |-> RxMsg,
      calls |-> <<>>, bPrevVoiceState |-> bPrevVoiceState,
      fileSends |-> fileSends, bFoundFirstEOL |-> bFoundFirstEOL,
      bPrevHookState |-> bPrevHookState, recordQ |-> recordQ,
      hookLog |-> hookLog ]

Commit(s) ==
    /\ ATCmdState' = s.ATCmdState
    /\ subState' = s.subState
    /\ errorCodeRsp' = s.errorCodeRsp
    /\ byMTStatus' = s.byMTStatus
    /\ bRingersOn' = s.bRingersOn
    /\ bRelayOn' = s.bRelayOn
    /\ thRespTimeOut' = s.thRespTimeOut
    /\ thCISRespTimeOut' = s.thCISRespTimeOut
    /\ cisPort' = s.cisPort
    /\ cfgIndex' = s.cfgIndex
    /\ modemRunning' = s.modemRunning
    /\ cisPowered' = s.cisPowered
    /\ dsr' = s.dsr
    /\ modemState' = s.modemState
    /\ prevModemState' = s.prevModemState
    /\ ModemCmd' = s.ModemCmd
    /\ ModemRsp' = s.ModemRsp
    /\ modemQBuff' = s.modemQBuff
    /\ wReadIndex' = s.wReadIndex
    /\ wWriteIndex' = s.wWriteIndex
    /\ byFileSendRetryCount' = s.byFileSendRetryCount
    /\ byFileReceiveRetryCount' = s.byFileReceiveRetryCount
    /\ byCSQDebounceCount' = s.byCSQDebounceCount
    /\ bSendingEnabled' = s.bSendingEnabled
    /\ bInTransparentMode' = s.bInTransparentMode
    /\ thCheckCSQ' = s.thCheckCSQ
    /\ thCheckRetryDelay' = s.thCheckRetryDelay
    /\ thWaitForCalls' = s.thWaitForCalls
    /\ thCheckGateway' = s.thCheckGateway
    /\ thCheckCallStatus' = s.thCheckCallStatus
    /\ thTimeout' = s.thTimeout
    /\ atCmdState' = s.atCmdState
    /\ obs' = s.obs
    /\ sent' = s.sent
    /\ resends' = s.resends
    /\ ret' = s.ret
    /\ modemInfo' = s.modemInfo
    /\ byBinMsgBuffer' = s.byBinMsgBuffer
    /\ rxQueue' = s.rxQueue
    /\ byRxBuffer' = s.byRxBuffer
    /\ txBytes' = s.txBytes
    /\ payload' = s.payload
    /\ sysLog' = s.sysLog
    /\ wRxDataCount' = s.wRxDataCount
    /\ wCalculatedCheckSum' = s.wCalculatedCheckSum
    /\ RxMsg' = s.RxMsg
    /\ calls' = s.calls
    /\ bPrevVoiceState' = s.bPrevVoiceState
    /\ fileSends' = s.fileSends
    /\ bFoundFirstEOL' = s.bFoundFirstEOL
    /\ bPrevHookState' = s.bPrevHookState
    /\ recordQ' = s.recordQ
    /\ hookLog' = s.hookLog

\* Binary messages are limited to MAX_FILE_LEN bytes, the two checksum
\* bytes excluded.
MAX_FILE_LEN == 1960

\* The line buffer byRxBuffer holds MAX_CMD_LINE_LEN bytes.
MAX_CMD_LINE_LEN == 256

AT_RSP_SBD_STATUS_RA == 1

\* The bytes of the replies are characters; NUL ends a line in the buffer.
NUL == "NUL"
CARRIAGE_RETURN == "\r"
LINE_FEED == "\n"
AT_RSP_SBD_WRITE_BIN_READY == << "R", "E", "A", "D", "Y", CARRIAGE_RETURN >>

\* ------------------------------------------------------------------ timers
StartTimer(s, t) ==
    [s EXCEPT ![t] = IF t \in EngineTimers /\ @ = 1 THEN 2 ELSE 1]

ResetTimer(s, t) == StartTimer(s, t)

StopTimer(s, t) == [s EXCEPT ![t] = 0]

\* in[t] says whether the period of timer t has elapsed by this step.
TimerExpired(s, in, t) == s[t] # 0 /\ in[t]

\* ------------------------------------------------------- Modem.c: helpers
SetCISPort(s, portState) == [s EXCEPT !.cisPort = portState]

\* The serial queues are flushed and the line buffer is emptied (wRxIndex
\* is the length of byRxBuffer).
ClearBuffers(s, portState) ==
    [SetCISPort(s, portState) EXCEPT !.rxQueue = <<>>, !.byRxBuffer = <<>>]

KeepModemSignalStrength(s) == s

ClearModemSignalStrength(s) == [s EXCEPT !.modemInfo.iSignalStrength = -1]

ClearRxBinaryDataVars(s) ==
    [s EXCEPT !.RxMsg = NoRxMsg, !.wCalculatedCheckSum = 0]

ClearModemInfo(s) ==
    [s EXCEPT !.byMTStatus = "NO_MSG", !.modemInfo = NoModemInfo]

\* One write of a command to the UART, with the function that issued it and
\* the engine state at the time of the write.
\* lapse: the period SendCommand gives the response timer with the write.
ModemPortSendBuffer(s, fn, cmd) ==
    [s EXCEPT !.sent = Append(@, [fn |-> fn, cmd |-> cmd, at |-> s.ATCmdState,
                                  lapse |-> "none"])]

\* The call fn(arg), which returned r, is observed.
Called(s, fn, arg, r) ==
    [s EXCEPT !.calls = Append(@, [fn |-> fn, arg |-> arg, ret |-> r])]

BoolStr(b) == IF b THEN "TRUE" ELSE "FALSE"

\* ModemLog.c: the entry is observed, the file of the log is not modelled.
RecordModemLogError(s, errCode) == Called(s, "RecordModemLogError", errCode, "void")

ReportSystemLogError(s, code) == [s EXCEPT !.sysLog = Append(@, code)]

\* The commands from AT_CMD_SBD_INITIATE_SESSION on in AT_CMD_LIST.
SatelliteCmds == { "AT_CMD_SBD_INITIATE_SESSION", "AT_CMD_SBD_INITIATE_ALERT_SESSION" }

\* The command SendCommand writes for cmd: a session is the alert session
\* when the ring-alert flag is set.
SessionCmd(s, cmd) ==
    IF cmd \notin SatelliteCmds THEN cmd
    ELSE IF s.modemInfo.byRAFlag = AT_RSP_SBD_STATUS_RA
    THEN "AT_CMD_SBD_INITIATE_ALERT_SESSION"
    ELSE "AT_CMD_SBD_INITIATE_SESSION"

SendCommandNoTimer(s, fn, cmd) ==
    ModemPortSendBuffer(ClearBuffers(s, "DATA_PORT"), fn, SessionCmd(s, cmd))

SendCommandNoAlert(s, fn, cmd) ==
    LET s1 == ModemPortSendBuffer(ClearBuffers(s, "DATA_PORT"), fn, cmd)
    IN  StartTimer([s1 EXCEPT !.sent[Len(s1.sent)].lapse =
                        IF cmd \in SatelliteCmds THEN "wSatelliteTimeout"
                        ELSE "STANDARD_RSP_TIMEOUT"],
                   "thRespTimeOut")

SendCommand(s, fn, cmd) ==
    LET s1 == ModemPortSendBuffer(ClearBuffers(s, "DATA_PORT"), fn, SessionCmd(s, cmd))
    IN  StartTimer([s1 EXCEPT !.sent[Len(s1.sent)].lapse =
                        IF cmd \in SatelliteCmds THEN "wSatelliteTimeout"
                        ELSE "STANDARD_RSP_TIMEOUT"],
                   "thRespTimeOut")

\* Byte i (from 1) of the array byBinMsgBuffer: the sequence holds the bytes
\* last copied into it, the rest of the array is zero.
TxByte(buf, i) == IF i <= Len(buf) THEN buf[i] ELSE 0

\* The WORD sum of bytes lo..hi of the array.  The loop's additions are
\* grouped in halves, which keeps the evaluation shallow; every partial sum
\* is a WORD.
RECURSIVE WordSum(_, _, _)
WordSum(buf, lo, hi) ==
    IF lo > hi THEN 0
    ELSE IF lo = hi THEN TxByte(buf, lo)
    ELSE LET mid == (lo + hi) \div 2
         IN  (WordSum(buf, lo, mid) + WordSum(buf, mid + 1, hi)) % 65536

SendBinaryDataBufferNoCarry(s, fn) ==
    LET wLen == s.modemInfo.dwTxMsgLen % 65536
        wCheckSum == WordSum(s.byBinMsgBuffer, 1, wLen) % 256
        s1 == ClearBuffers(s, "DATA_PORT")
        s2 == ModemPortSendBuffer(s1, fn, "BINARY_DATA")
    IN  StartTimer([s2 EXCEPT !.txBytes =
                        [i \in 1..wLen |-> TxByte(s.byBinMsgBuffer, i)]
                        \o << wCheckSum \div 256, wCheckSum % 256 >>],
                   "thRespTimeOut")

\* The payload and its two checksum bytes, high byte first, are written.
SendBinaryDataBuffer(s, fn) ==
    LET wLen == s.modemInfo.dwTxMsgLen % 65536
        wCheckSum == WordSum(s.byBinMsgBuffer, 1, wLen)
        s1 == ClearBuffers(s, "DATA_PORT")
        s2 == ModemPortSendBuffer(s1, fn, "BINARY_DATA")
    IN  StartTimer([s2 EXCEPT !.txBytes =
                        [i \in 1..wLen |-> TxByte(s.byBinMsgBuffer, i)]
                        \o << wCheckSum \div 256, wCheckSum % 256 >>],
                   "thRespTimeOut")

\* Returns the new state and the BOOL result.
SendCISPortCmd(s, fn, cmd) ==
    IF ~s.cisPowered
    THEN [st |-> s, ok |-> FALSE]
    ELSE [st |-> [StartTimer(ModemPortSendBuffer(
                                ClearBuffers(s, "PROGRAMMING_PORT"), fn, cmd),
                             "thCISRespTimeOut")
                    EXCEPT !.ATCmdState = "AT_CMD_PGMING",
                           !.subState = "SEND_CIS_PORT_CMD"],
          ok |-> TRUE]

SendCISLoadConfigLineCmd(s, fn) ==
    IF s.cfgIndex >= MaxCfgLines
    THEN [st |-> [s EXCEPT !.cfgIndex = 0], ok |-> FALSE]
    ELSE [st |-> [StartTimer(ModemPortSendBuffer(
                                ClearBuffers([s EXCEPT !.cfgIndex = @ + 1],
                                             "PROGRAMMING_PORT"),
                                fn, "CIS_CONFIG_LINE"),
                             "thCISRespTimeOut")
                    EXCEPT !.ATCmdState = "AT_CMD_PGMING",
                           !.subState = "CIS_PGMING_RSP"],
          ok |-> TRUE]

\* What a tick reads from the aux board in answer to a line: nothing, one
\* status byte, or the byte 'a' with the byte that follows it ("aC": 'C'
\* follows; "a": nothing follows yet, or another byte); "C" is the byte 'C'
\* on its own and "x" any byte without a meaning.
ProgBytes ==
    { "none", "N", "n", "F", "M", "O", "E", "e", "H", "a", "aC", "C", "x" }

\* The status bytes of a line the aux board refused and that can be sent
\* again: bad checksum, bad character, bad format.
PROG_CIS_RECOVERABLE == { "N", "n", "F" }

RecoverFromBadCISCmdKeepIndex(s, fn) ==
    ResetTimer(ModemPortSendBuffer(s, fn, "CIS_CMD_CANCEL_LOAD_FLASH"),
               "thCISRespTimeOut")

RecoverFromBadCISCmd(s, fn) ==
    [ResetTimer(ModemPortSendBuffer(s, fn, "CIS_CMD_CANCEL_LOAD_FLASH"),
                "thCISRespTimeOut")
       EXCEPT !.cfgIndex = 0]

SetATCmdStateInit(s) ==
    StopTimer(StopTimer(
        ClearBuffers([s EXCEPT !.ATCmdState = "AT_CMD_POWERED_DOWN",
                               !.subState = "SUBSTATE_NONE"], "DATA_PORT"),
        "thRespTimeOut"), "thCISRespTimeOut")

SetATCmdStateIdle(s) ==
    StopTimer(StopTimer(
        ClearBuffers([s EXCEPT !.ATCmdState = "AT_CMD_IDLE",
                               !.subState = "SUBSTATE_NONE"], "DATA_PORT"),
        "thRespTimeOut"), "thCISRespTimeOut")

PowerDownReset(s, t) ==
    [StopTimer(ClearModemInfo(ClearBuffers(s, "DATA_PORT")), t)
       EXCEPT !.ATCmdState = "AT_CMD_POWERED_DOWN",
              !.subState = "SUBSTATE_NONE",
              !.errorCodeRsp = "MEC_NONE"]

ResetModemInCall(s, pcOk) ==
    IF pcOk
    THEN [st |-> PowerDownReset(s, "thRespTimeOut"), ok |-> TRUE]
    ELSE [st |-> s, ok |-> FALSE]

\* pcOk: the power manager cycles the power of the modem.
ResetModem(s, pcOk) ==
    IF ~s.dsr /\ pcOk
    THEN [st |-> PowerDownReset(s, "thRespTimeOut"), ok |-> TRUE]
    ELSE [st |-> s, ok |-> FALSE]

GetSBDStatus(s) ==
    LET s1 == IF s.byMTStatus = "FAILED_MSG" /\ s.modemInfo.byRAFlag # 0
              THEN [s EXCEPT !.modemInfo.byMTQueueNbr = (@ + 1) % 256]
              ELSE s
    IN  [st |-> [s1 EXCEPT !.byMTStatus = "NO_MSG", !.modemInfo.byRAFlag = 0],
         val |-> s.byMTStatus]

GetErrorCodeRsp(s) == [s EXCEPT !.errorCodeRsp = "MEC_NONE"]

\* ------------------------------------------- Modem.c: dispatch functions
\* Each returns [st, ok]: the new state and the BOOL the C function returns.
SendWriteTextMsgCmd(s) ==
    IF s.ATCmdState # "AT_CMD_IDLE"
    THEN [st |-> s, ok |-> FALSE]
    ELSE [st |-> [StartTimer(ModemPortSendBuffer(ClearBuffers(s, "DATA_PORT"),
                                  "SendWriteTextMsgCmd", "AT_CMD_WRITE_TEXT_MSG"),
                             "thRespTimeOut")
                    EXCEPT !.ATCmdState = "AT_CMD_SENDING",
                           !.subState = "SEND_TEXT_MSG"],
          ok |-> TRUE]

\* fileOk: the file could be opened and read and its length is positive.
SendBinaryFile(s, fileOk) ==
    IF s.ATCmdState # "AT_CMD_IDLE"
    THEN [st |-> s, ok |-> FALSE]
    ELSE IF ~fileOk
    THEN [st |-> [s EXCEPT !.errorCodeRsp = "MEC_TX_BIN_DATA_BAD_SIZE"],
          ok |-> FALSE]
    ELSE [st |-> [SendCommand(s, "SendBinaryFile", "AT_CMD_WRITE_BINARY_MSG")
                    EXCEPT !.ATCmdState = "AT_CMD_SENDING",
                           !.subState = "SEND_READY_CMD"],
          ok |-> TRUE]

\* pbyDataBuf: the bytes handed over; wMsgSize is their number.
SendBinaryBuffer(s, pbyDataBuf) ==
    LET wMsgSize == Len(pbyDataBuf)
        dwLen == IF wMsgSize > MAX_FILE_LEN THEN MAX_FILE_LEN ELSE wMsgSize
        s1 == [s EXCEPT !.modemInfo.dwTxMsgLen = dwLen]
        s2 == IF wMsgSize > MAX_FILE_LEN
              THEN [s1 EXCEPT !.errorCodeRsp = "MEC_TRUNCATED_FILE"] ELSE s1
        s3 == [s2 EXCEPT !.byBinMsgBuffer = SubSeq(pbyDataBuf, 1, dwLen)]
    IN
    IF s.ATCmdState # "AT_CMD_IDLE"
    THEN [st |-> s, ok |-> FALSE]
    ELSE IF wMsgSize <= 0
    THEN [st |-> [s1 EXCEPT !.errorCodeRsp = "MEC_TX_BIN_DATA_BAD_SIZE"],
          ok |-> FALSE]
    ELSE [st |-> [SendCommand(s3, "SendBinaryBuffer", "AT_CMD_WRITE_BINARY_MSG")
                    EXCEPT !.ATCmdState = "AT_CMD_SENDING",
                           !.subState = "SEND_READY_CMD"],
          ok |-> TRUE]

CheckGateway(s) ==
    IF s.ATCmdState # "AT_CMD_IDLE"
    THEN [st |-> s, ok |-> FALSE]
    ELSE [st |-> [SendCommand(s, "CheckGateway", "AT_CMD_SBD_STATUS")
                    EXCEPT !.ATCmdState = "AT_CMD_SENDING",
                           !.subState = "SEND_STATUS_CMD"],
          ok |-> TRUE]

CheckMailboxNoGuard(s) ==
    [st |-> [SendCommand(s, "CheckMailbox", "AT_CMD_CLEAR_MO_BUFF")
               EXCEPT !.ATCmdState = "AT_CMD_SENDING",
                      !.subState = "SEND_MAILBOX_CHECK_CMD"],
     ok |-> TRUE]

CheckMailbox(s) ==
    IF s.ATCmdState # "AT_CMD_IDLE"
    THEN [st |-> s, ok |-> FALSE]
    ELSE [st |-> [SendCommand(s, "CheckMailbox", "AT_CMD_CLEAR_MO_BUFF")
                    EXCEPT !.ATCmdState = "AT_CMD_SENDING",
                           !.subState = "SEND_MAILBOX_CHECK_CMD"],
          ok |-> TRUE]

SendCSQCmd(s) ==
    IF s.ATCmdState # "AT_CMD_IDLE"
    THEN [st |-> s, ok |-> FALSE]
    ELSE [st |-> [SendCommand(s, "SendCSQCmd", "AT_CMD_CSQ")
                    EXCEPT !.ATCmdState = "AT_CMD_SENDING",
                           !.subState = "SEND_CSQ_CMD"],
          ok |-> TRUE]

SendReadBinaryFileCmd(s) ==
    IF s.ATCmdState # "AT_CMD_IDLE"
    THEN [st |-> s, ok |-> FALSE]
    ELSE [st |-> [ClearRxBinaryDataVars(
                      SendCommand(s, "SendReadBinaryFileCmd", "AT_CMD_READ_BINARY_MSG"))
                    EXCEPT !.ATCmdState = "AT_CMD_RCVING",
                           !.subState = "GET_DATA"],
          ok |-> TRUE]

SendCLCCCmd(s) ==
    IF s.ATCmdState # "AT_CMD_IDLE"
    THEN [st |-> s, ok |-> FALSE]
    ELSE [st |-> [SendCommand(s, "SendCLCCCmd", "AT_CMD_CLCC")
                    EXCEPT !.ATCmdState = "AT_CMD_SENDING",
                           !.subState = "SEND_MODEM_STATE_CMD"],
          ok |-> TRUE]

SendCallHangupCmd(s) ==
    IF s.ATCmdState # "AT_CMD_IDLE"
    THEN [st |-> s, ok |-> FALSE]
    ELSE [st |-> [SendCommand(s, "SendCallHangupCmd", "AT_CMD_HANGUP")
                    EXCEPT !.ATCmdState = "AT_CMD_SENDING",
                           !.subState = "SEND_HANGUP_CALL_CMD"],
          ok |-> TRUE]

\* The aux dispatch functions are allowed in IDLE and in POWERED_DOWN.
AuxAllowed(s) == s.ATCmdState \in { "AT_CMD_IDLE", "AT_CMD_POWERED_DOWN" }

SendDownloadCISCmd(s) ==
    IF ~AuxAllowed(s)
    THEN [st |-> s, ok |-> FALSE]
    ELSE LET r == SendCISPortCmd(s, "SendDownloadCISCmd", "CIS_CMD_DOWNLOAD_CONFIG")
         IN  [st |-> [r.st EXCEPT !.subState = "SEND_CIS_DOWNLOAD_CONFIG_CMD"],
              ok |-> r.ok]

SendProgramCISCmd(s) ==
    IF ~AuxAllowed(s)
    THEN [st |-> s, ok |-> FALSE]
    ELSE LET r == SendCISPortCmd(s, "SendProgramCISCmd", "CIS_CMD_VERSION_CHECK")
         IN  [st |-> [r.st EXCEPT !.subState = "SEND_CIS_VERSION_QUERY_CMD"],
              ok |-> r.ok]

SendCISResetCmd(s) ==
    IF ~AuxAllowed(s)
    THEN [st |-> s, ok |-> FALSE]
    ELSE SendCISPortCmd(s, "SendCISResetCmd", "CIS_CMD_RESET")

SendSetRingerCmd(s, bRingerState) ==
    IF ~AuxAllowed(s)
    THEN [st |-> s, ok |-> FALSE]
    ELSE SendCISPortCmd([s EXCEPT !.bRingersOn = bRingerState], "SendSetRingerCmd",
                        IF bRingerState THEN "CIS_CMD_RINGER_ON"
                                        ELSE "CIS_CMD_RINGER_OFF")

SendGetRingerStatusCmd(s) ==
    IF ~AuxAllowed(s)
    THEN [st |-> s, ok |-> FALSE]
    ELSE LET r == SendCISPortCmd(s, "SendGetRingerStatusCmd", "CIS_CMD_RINGER_STATUS")
         IN  [st |-> [r.st EXCEPT !.subState = "SEND_CIS_RINGER_STATE_CMD"],
              ok |-> r.ok]

\* relayNbr is 1 or 2 (the API layer passes no other value).
SendSetRelayCmd(s, relayNbr, bOn) ==
    IF ~AuxAllowed(s)
    THEN [st |-> s, ok |-> FALSE]
    ELSE SendCISPortCmd([s EXCEPT !.bRelayOn[relayNbr] = bOn], "SendSetRelayCmd",
                        IF relayNbr = 1
                        THEN (IF bOn THEN "CIS_CMD_RELAY_1_ON" ELSE "CIS_CMD_RELAY_1_OFF")
                        ELSE (IF bOn THEN "CIS_CMD_RELAY_2_ON" ELSE "CIS_CMD_RELAY_2_OFF"))

SendGetRelayStatusCmd(s, relayNbr) ==
    IF ~AuxAllowed(s)
    THEN [st |-> s, ok |-> FALSE]
    ELSE LET r == SendCISPortCmd(s, "SendGetRelayStatusCmd",
                                 IF relayNbr = 1 THEN "CIS_CMD_RELAY_1_STATUS"
                                                 ELSE "CIS_CMD_RELAY_2_STATUS")
         IN  [st |-> [r.st EXCEPT !.subState = "SEND_CIS_RELAY_STATE_CMD"],
              ok |-> r.ok]

\* --------------------------------------------- queue.h: circular buffer
\* The queue library is not part of the driver sources; a ring buffer with
\* a read and a write index.
AddDataToQueue(s, data) ==
    [s EXCEPT !.modemQBuff[s.wWriteIndex] = data,
              !.wWriteIndex = (@ + 1) % MDM_Q_LEN]

GetDataFromQueue(s) ==
    [st |-> [s EXCEPT !.wReadIndex = (@ + 1) % MDM_Q_LEN],
     val |-> s.modemQBuff[s.wReadIndex]]

\* -------------------------------------------- ModemAPI.c: aux requests
AddNewDataToQueueNoScan(s, Modemcommand) ==
    [AddDataToQueue(s, Modemcommand) EXCEPT !.ModemRsp[Modemcommand] = "MR_WAITING"]

AddNewDataToQueue(s, Modemcommand) ==
    IF \E byIndex \in 0..(MDM_Q_LEN - 1) : s.modemQBuff[byIndex] = Modemcommand
    THEN s
    ELSE [AddDataToQueue(s, Modemcommand)
            EXCEPT !.ModemRsp[Modemcommand] = "MR_WAITING"]

SetModemStateBusy(s, cmd) ==
    [s EXCEPT !.prevModemState = s.modemState,
              !.modemState = "MODEM_BUSY",
              !.ModemCmd = cmd,
              !.ModemRsp[cmd] = "MR_WAITING"]

ApiAuxAllowed(s) == s.modemState \in { "MODEM_IDLE", "MODEM_POWERED_DOWN" }

\* Common shape of the aux request functions: try the dispatch function r
\* when the API is IDLE or POWERED_DOWN, else (or on refusal) queue mdmCmd.
AuxRequest(s, r, mdmCmd) ==
    IF ApiAuxAllowed(s) /\ r.ok
    THEN [st |-> SetModemStateBusy(r.st, mdmCmd), ok |-> TRUE]
    ELSE [st |-> AddNewDataToQueue(IF ApiAuxAllowed(s) THEN r.st ELSE s, mdmCmd),
          ok |-> FALSE]

UploadCISConfig(s) == AuxRequest(s, SendDownloadCISCmd(s), "UPLOAD_CIS_CONFIG")

ProgramCIS(s) == AuxRequest(s, SendProgramCISCmd(s), "CONFIGURE_CIS")

SaveCISCurrentState(s) ==
    LET s1 == AddNewDataToQueue(s, IF s.bRingersOn THEN "RINGER_ON" ELSE "RINGER_OFF")
        s2 == AddNewDataToQueue(s1, IF s.bRelayOn[1] THEN "RELAY1_ON" ELSE "RELAY1_OFF")
    IN  AddNewDataToQueue(s2, IF s.bRelayOn[2] THEN "RELAY2_ON" ELSE "RELAY2_OFF")

ResetCIS(s) ==
    LET r == SendCISResetCmd(s)
    IN  IF ApiAuxAllowed(s) /\ r.ok
        THEN [st |-> SetModemStateBusy(SaveCISCurrentState(r.st), "RESET_CIS"),
              ok |-> TRUE]
        ELSE [st |-> AddNewDataToQueue(IF ApiAuxAllowed(s) THEN r.st ELSE s,
                                       "RESET_CIS"),
              ok |-> FALSE]

TogglePhoneRinger(s, bRingerOn) ==
    AuxRequest(s, SendSetRingerCmd(s, bRingerOn),
               IF bRingerOn THEN "RINGER_ON" ELSE "RINGER_OFF")

SendPhoneRingerStatusCmd(s) ==
    AuxRequest(s, SendGetRingerStatusCmd(s), "RINGER_STATUS")

ToggleRelayState(s, byRelayNbr, bRelayState) ==
    AuxRequest(s, SendSetRelayCmd(s, byRelayNbr, bRelayState),
               IF byRelayNbr = 1
               THEN (IF bRelayState THEN "RELAY1_ON" ELSE "RELAY1_OFF")
               ELSE (IF bRelayState THEN "RELAY2_ON" ELSE "RELAY2_OFF"))

SendOutputRelayStatusCmd(s, byRelayNbr) ==
    AuxRequest(s, SendGetRelayStatusCmd(s, byRelayNbr),
               IF byRelayNbr = 1 THEN "RELAY1_STATUS" ELSE "RELAY2_STATUS")

HangupCall(s) ==
    LET r == SendCallHangupCmd(s)
    IN  IF r.ok
        THEN [st |-> SetModemStateBusy(r.st, "CALL_HANGUP"), ok |-> TRUE]
        ELSE [st |-> AddNewDataToQueue(s, "CALL_HANGUP"), ok |-> FALSE]

\* The request function of a queueable command.
RequestAux(s, cmd) ==
    CASE cmd = "RINGER_ON" -> TogglePhoneRinger(s, TRUE)
      [] cmd = "RINGER_OFF" -> TogglePhoneRinger(s, FALSE)
      [] cmd = "RELAY1_ON" -> ToggleRelayState(s, 1, TRUE)
      [] cmd = "RELAY1_OFF" -> ToggleRelayState(s, 1, FALSE)
      [] cmd = "RELAY2_ON" -> ToggleRelayState(s, 2, TRUE)
      [] cmd = "RELAY2_OFF" -> ToggleRelayState(s, 2, FALSE)
      [] cmd = "RINGER_STATUS" -> SendPhoneRingerStatusCmd(s)
      [] cmd = "RELAY1_STATUS" -> SendOutputRelayStatusCmd(s, 1)
      [] cmd = "RELAY2_STATUS" -> SendOutputRelayStatusCmd(s, 2)
      [] cmd = "RESET_CIS" -> ResetCIS(s)
      [] cmd = "CONFIGURE_CIS" -> ProgramCIS(s)
      [] cmd = "UPLOAD_CIS_CONFIG" -> UploadCISConfig(s)
      [] cmd = "CALL_HANGUP" -> HangupCall(s)

HandleQueuedCommands(s) ==
    IF s.wWriteIndex = s.wReadIndex
    THEN s
    ELSE LET wBackupReadIndex == s.wReadIndex
             g == GetDataFromQueue(s)
             mdmCmds == g.val
             s1 == [g.st EXCEPT !.modemQBuff[wBackupReadIndex] = "NO_CMD"]
         IN  IF mdmCmds = "NO_CMD" \/ mdmCmds \notin AuxCmds
             THEN s1
             ELSE IF mdmCmds = "CALL_HANGUP" /\ s1.modemState = "MODEM_POWERED_DOWN"
             THEN s1
             ELSE RequestAux(s1, mdmCmds).st

\* --------------------------------------------- Modem.c: reply parsers
\* What the device sent is an input of the step: in.rsp is the verdict of
\* the parser that runs in this step, the other fields are what the reply
\* carried.  A parser that fails records an error code.
Parsed(s, in) ==
    IF in.rsp = "MR_FAILED" THEN [s EXCEPT !.errorCodeRsp = "MEC_ERROR"] ELSE s

\* With in.rsp = "MR_PORT" the parser reads the bytes of the serial port
\* instead: rxQueue holds the bytes received and not yet read.
GetModemPortChar(s) ==
    IF s.rxQueue = <<>>
    THEN [st |-> s, ok |-> FALSE, byData |-> NUL]
    ELSE [st |-> [s EXCEPT !.rxQueue = Tail(@)], ok |-> TRUE,
          byData |-> Head(s.rxQueue)]

\* The line buffer is never found full.
RxOverflowIgnored(s) == s

\* The line buffer is full: the error is recorded and the index goes back
\* to the start of the buffer.
RxOverflowCheck(s) ==
    IF Len(s.byRxBuffer) >= MAX_CMD_LINE_LEN
    THEN [s EXCEPT !.errorCodeRsp = "MEC_RX_BUFFER_OVERFLOW",
                   !.byRxBuffer = <<>>]
    ELSE s

\* byRxBuffer[wRxIndex++] = byData.  A store past the end of the buffer is
\* recorded as such.
StoreRxByte(s, byData) ==
    LET s1 == [s EXCEPT !.byRxBuffer = Append(@, byData)]
    IN  IF Len(s.byRxBuffer) >= MAX_CMD_LINE_LEN
        THEN Called(s1, "StoreRxByte", "out of bounds", "FALSE")
        ELSE s1

\* Bytes are moved to the line buffer until the end-of-line byte is read,
\* which is stored as NUL.
RECURSIVE GetResponseBuffer(_, _)
GetResponseBuffer(s, EOL) ==
    LET c == GetModemPortChar(s)
        s1 == RxOverflowCheck(c.st)
    IN  IF ~c.ok THEN [st |-> s, ok |-> FALSE]
        ELSE IF c.byData = EOL
        THEN [st |-> StoreRxByte(s1, NUL), ok |-> TRUE]
        ELSE GetResponseBuffer(StoreRxByte(s1, c.byData), EOL)

\* The reply of the aux board: the bytes up to FirstEOL are dropped, those
\* that follow are moved to the line buffer until SecondEOL is read, after
\* which a NUL is stored.  Each byte is stored before the buffer is tested.
RECURSIVE GetDualResponse(_, _, _)
GetDualResponse(s, FirstEOL, SecondEOL) ==
    LET c == GetModemPortChar(s)
        s1 == RxOverflowCheck(StoreRxByte(c.st, c.byData))
    IN  IF ~c.ok THEN [st |-> s, ok |-> FALSE]
        ELSE IF s1.bFoundFirstEOL
        THEN IF c.byData = SecondEOL
             THEN [st |-> [StoreRxByte(s1, NUL) EXCEPT !.bFoundFirstEOL = FALSE],
                   ok |-> TRUE]
             ELSE GetDualResponse(s1, FirstEOL, SecondEOL)
        ELSE IF c.byData = FirstEOL
        THEN GetDualResponse([s1 EXCEPT !.byRxBuffer = <<>>,
                                        !.bFoundFirstEOL = TRUE],
                             FirstEOL, SecondEOL)
        ELSE GetDualResponse(s1, FirstEOL, SecondEOL)

\* The index of the first occurrence of sub in the first Len(buf) bytes of
\* the buffer, from 0, or -1.
FindSubStr(buf, sub) ==
    LET at == { i \in 1..(Len(buf) - Len(sub) + 1) :
                    SubSeq(buf, i, i + Len(sub) - 1) = sub }
    IN  IF at = {} THEN -1
        ELSE (CHOOSE i \in at : \A j \in at : i <= j) - 1

GetLastRsp(s, in) ==
    IF in.rsp # "MR_PORT"
    THEN [st |-> Parsed(s, in), rsp |-> in.rsp]
    ELSE LET c == GetModemPortChar(s)
         IN  CASE ~c.ok -> [st |-> s, rsp |-> "MR_WAITING"]
               [] c.ok /\ c.byData = "0" -> [st |-> c.st, rsp |-> "MR_SUCCESS"]
               [] c.ok /\ c.byData = "1" ->
                    [st |-> [c.st EXCEPT !.errorCodeRsp = "MEC_CLEAR_MODEM_BUFFER_ERROR"],
                     rsp |-> "MR_FAILED"]
               [] c.ok /\ c.byData = "4" ->
                    [st |-> [c.st EXCEPT !.errorCodeRsp = "MEC_ERROR"],
                     rsp |-> "MR_FAILED"]
               [] OTHER -> [st |-> c.st, rsp |-> "MR_WAITING"]

\* The reply to AT+SBDWB: a line with READY and <CR>, or a numeric code.
GetWriteBinaryMsgRspNoCode(s, in) ==
    IF in.rsp # "MR_PORT"
    THEN GetLastRsp(s, in)
    ELSE LET b == GetResponseBuffer(s, LINE_FEED)
             buf == b.st.byRxBuffer
         IN  IF ~b.ok THEN [st |-> b.st, rsp |-> "MR_WAITING"]
             ELSE IF FindSubStr(buf, AT_RSP_SBD_WRITE_BIN_READY) > -1
             THEN [st |-> b.st, rsp |-> "MR_SUCCESS"]
             ELSE [st |-> b.st, rsp |-> "MR_WAITING"]

GetWriteBinaryMsgRsp(s, in) ==
    IF in.rsp # "MR_PORT"
    THEN GetLastRsp(s, in)
    ELSE LET b == GetResponseBuffer(s, LINE_FEED)
             buf == b.st.byRxBuffer
             failed(code) == [st |-> [b.st EXCEPT !.errorCodeRsp = code],
                              rsp |-> "MR_FAILED"]
         IN  IF ~b.ok THEN [st |-> b.st, rsp |-> "MR_WAITING"]
             ELSE IF FindSubStr(buf, AT_RSP_SBD_WRITE_BIN_READY) > -1
             THEN [st |-> b.st, rsp |-> "MR_SUCCESS"]
             ELSE CASE buf[1] = "0" -> [st |-> b.st, rsp |-> "MR_SUCCESS"]
                    [] buf[1] = "1" -> failed("MEC_TX_BIN_DATA_TIMEOUT")
                    [] buf[1] = "2" -> failed("MEC_TX_BIN_DATA_BAD_CHECKSUM")
                    [] buf[1] = "3" -> failed("MEC_TX_BIN_DATA_BAD_SIZE")
                    [] OTHER -> [st |-> b.st, rsp |-> "MR_WAITING"]

\* The heading of a reply line is one element of the buffer, every other
\* byte is an element of its own.  The text that follows the heading at
\* index iHeaderIndex (from 0), up to the NUL that ends the line.
StringMidCpy(buf, iHeaderIndex) ==
    LET from == iHeaderIndex + 2
        nul == CHOOSE i \in from..(Len(buf) + 1) :
                   /\ i = Len(buf) + 1 \/ buf[i] = NUL
                   /\ \A j \in from..(i - 1) : buf[j] # NUL
    IN  SubSeq(buf, from, nul - 1)

\* Field k of a text whose fields are separated by commas; a field that is
\* missing is empty.
StringTok(sz, k) ==
    LET comma(n) ==
            IF n = 0 THEN 0
            ELSE IF \E i \in 1..Len(sz) :
                       sz[i] = "," /\ Cardinality({ j \in 1..i : sz[j] = "," }) = n
            THEN CHOOSE i \in 1..Len(sz) :
                       sz[i] = "," /\ Cardinality({ j \in 1..i : sz[j] = "," }) = n
            ELSE Len(sz) + 1
    IN  SubSeq(sz, comma(k - 1) + 1, comma(k) - 1)

DigitVal(c) ==
    CASE c = "0" -> 0 [] c = "1" -> 1 [] c = "2" -> 2 [] c = "3" -> 3 [] c = "4" -> 4
      [] c = "5" -> 5 [] c = "6" -> 6 [] c = "7" -> 7 [] c = "8" -> 8 [] c = "9" -> 9
      [] OTHER -> -1

\* The number a text starts with, after leading spaces; 0 if there is none.
RECURSIVE Digits2Int(_, _, _)
Digits2Int(sz, i, n) ==
    IF i > Len(sz) \/ DigitVal(sz[i]) = -1 THEN n
    ELSE Digits2Int(sz, i + 1, 10 * n + DigitVal(sz[i]))

StringToInt(sz) ==
    LET first == CHOOSE i \in 1..(Len(sz) + 1) :
                     /\ i = Len(sz) + 1 \/ sz[i] # " "
                     /\ \A j \in 1..(i - 1) : sz[j] = " "
    IN  Digits2Int(sz, first, 0)

\* Field k of the reply whose heading is at iHeaderIndex, as a number.
Field(buf, iHeaderIndex, k) == StringToInt(StringTok(StringMidCpy(buf, iHeaderIndex), k))

\* The MAILBOXCHECK_RSP of a number.
MailboxRsp(n) ==
    CASE n = 0 -> "NO_MSG" [] n = 1 -> "SUCCESSFUL_MSG" [] n = 2 -> "FAILED_MSG"
      [] OTHER -> "OTHER_MSG"

\* The error code of an MO status of +SBDIX that is a failure, "none" for a
\* status the switch has no case for.
SBDIError(byMOStatus) ==
    CASE byMOStatus = 10 -> "MEC_SBDI_GSS_TIMEOUT"
      [] byMOStatus = 11 -> "MEC_SBDI_GSS_Q_FULL"
      [] byMOStatus = 12 -> "MEC_SBDI_MO_SEGMENT_ERR"
      [] byMOStatus = 13 -> "MEC_SBDI_INCOMPLETE_SESSION"
      [] byMOStatus = 14 -> "MEC_SBDI_SEGMENT_SIZE_ERR"
      [] byMOStatus = 15 -> "MEC_SBDI_GSS_ACCESS_DENIED"
      [] byMOStatus = 16 -> "MEC_SBDI_SBD_BLOCKED"
      [] byMOStatus = 17 -> "MEC_SBDI_ISU_TIMEOUT"
      [] byMOStatus = 18 -> "MEC_SBDI_RF_DROP"
      [] byMOStatus = 19 -> "MEC_SBDI_PROTOCOL_ERR"
      [] byMOStatus \in (5..9) \cup (20..31) \cup { 33, 34, 36 } -> "MEC_SBDI_FAIL"
      [] byMOStatus = 32 -> "MEC_SBDI_NO_NETWORK_SERVICE"
      [] byMOStatus = 35 -> "MEC_SBDI_ISU_BUSY"
      [] OTHER -> "none"

\* +SBDIX.  As a verdict: the MT status of the reply is stored whenever a
\* line was parsed.  From the port: the six fields are parsed.
GetInitiateSBDSessionRspNoTable(s, in) ==
    IF in.rsp = "MR_WAITING"
    THEN [st |-> s, rsp |-> in.rsp]
    ELSE IF in.rsp # "MR_PORT"
    THEN [st |-> [Parsed(s, in) EXCEPT !.byMTStatus = in.mt], rsp |-> in.rsp]
    ELSE LET b == GetResponseBuffer(s, LINE_FEED)
             buf == b.st.byRxBuffer
             iHeaderIndex == FindSubStr(buf, << "+SBDIX:" >>)
             byMOStatus == Field(buf, iHeaderIndex, 1) % 256
             s1 == [b.st EXCEPT
                      !.modemInfo.szMOMSN = StringTok(StringMidCpy(buf, iHeaderIndex), 2),
                      !.modemInfo.szMTMSN = StringTok(StringMidCpy(buf, iHeaderIndex), 4),
                      !.modemInfo.byMOStatus = byMOStatus,
                      !.byMTStatus =
                          MailboxRsp(Field(buf, iHeaderIndex, 3) % 256)]
         IN  IF ~b.ok \/ iHeaderIndex = -1
             THEN [st |-> b.st, rsp |-> "MR_WAITING"]
             ELSE IF byMOStatus <= 9
             THEN [st |-> [s1 EXCEPT
                             !.modemInfo.wMTLength =
                                 Field(buf, iHeaderIndex, 5) % 65536,
                             !.modemInfo.byMTQueueNbr =
                                 Field(buf, iHeaderIndex, 6) % 256],
                   rsp |-> "MR_SUCCESS"]
             ELSE [st |-> [s1 EXCEPT !.errorCodeRsp = "MEC_SBDI_FAIL"],
                   rsp |-> "MR_FAILED"]

GetInitiateSBDSessionRsp(s, in) ==
    IF in.rsp = "MR_WAITING"
    THEN [st |-> s, rsp |-> in.rsp]
    ELSE IF in.rsp # "MR_PORT"
    THEN [st |-> [Parsed(s, in) EXCEPT !.byMTStatus = in.mt], rsp |-> in.rsp]
    ELSE LET b == GetResponseBuffer(s, LINE_FEED)
             buf == b.st.byRxBuffer
             iHeaderIndex == FindSubStr(buf, << "+SBDIX:" >>)
             byMOStatus == Field(buf, iHeaderIndex, 1) % 256
             s1 == [b.st EXCEPT
                      !.modemInfo.szMOMSN = StringTok(StringMidCpy(buf, iHeaderIndex), 2),
                      !.modemInfo.szMTMSN = StringTok(StringMidCpy(buf, iHeaderIndex), 4),
                      !.modemInfo.byMOStatus = byMOStatus,
                      !.byMTStatus =
                          MailboxRsp(Field(buf, iHeaderIndex, 3) % 256)]
             s2 == [s1 EXCEPT !.errorCodeRsp = SBDIError(byMOStatus)]
         IN  IF ~b.ok \/ iHeaderIndex = -1
             THEN [st |-> b.st, rsp |-> "MR_WAITING"]
             ELSE IF byMOStatus <= 4
             THEN [st |-> [s1 EXCEPT
                             !.modemInfo.wMTLength =
                                 Field(buf, iHeaderIndex, 5) % 65536,
                             !.modemInfo.byMTQueueNbr =
                                 Field(buf, iHeaderIndex, 6) % 256],
                   rsp |-> "MR_SUCCESS"]
             ELSE IF SBDIError(byMOStatus) = "none"
             THEN [st |-> s1, rsp |-> "MR_WAITING"]
             ELSE [st |-> IF byMOStatus = 16
                          THEN ReportSystemLogError(s2, "SYS_LOG_SBD_BLOCKED")
                          ELSE s2,
                   rsp |-> "MR_FAILED"]

\* +SBDSX.  As a verdict: a set ring-alert flag makes the reply a success.
\* From the port: the six fields are parsed.
GetSBDStatusRspNoQueued(s, in) ==
    IF in.rsp = "MR_WAITING"
    THEN [st |-> s, rsp |-> in.rsp]
    ELSE IF in.rsp # "MR_PORT"
    THEN [st |-> s, rsp |-> IF in.ra = 1 THEN "MR_SUCCESS" ELSE in.rsp]
    ELSE LET b == GetResponseBuffer(s, LINE_FEED)
             buf == b.st.byRxBuffer
             iHeaderIndex == FindSubStr(buf, << "+SBDSX:" >>)
             s1 == [b.st EXCEPT
                      !.modemInfo.szMOMSN = StringTok(StringMidCpy(buf, iHeaderIndex), 2),
                      !.modemInfo.szMTMSN = StringTok(StringMidCpy(buf, iHeaderIndex), 4),
                      !.modemInfo.byRAFlag =
                          Field(buf, iHeaderIndex, 5) % 256]
         IN  IF ~b.ok \/ iHeaderIndex = -1
             THEN [st |-> b.st, rsp |-> "MR_WAITING"]
             ELSE IF s1.modemInfo.byRAFlag = AT_RSP_SBD_STATUS_RA
                     \/ s1.modemInfo.byMTQueueNbr # 0
             THEN [st |-> s1, rsp |-> "MR_SUCCESS"]
             ELSE [st |-> s1, rsp |-> "MR_FAILED"]

GetSBDStatusRsp(s, in) ==
    IF in.rsp = "MR_WAITING"
    THEN [st |-> s, rsp |-> in.rsp]
    ELSE IF in.rsp # "MR_PORT"
    THEN [st |-> s, rsp |-> IF in.ra = 1 THEN "MR_SUCCESS" ELSE in.rsp]
    ELSE LET b == GetResponseBuffer(s, LINE_FEED)
             buf == b.st.byRxBuffer
             iHeaderIndex == FindSubStr(buf, << "+SBDSX:" >>)
             byQueuedMsgs == Field(buf, iHeaderIndex, 6) % 256
             s1 == [b.st EXCEPT
                      !.modemInfo.szMOMSN = StringTok(StringMidCpy(buf, iHeaderIndex), 2),
                      !.modemInfo.szMTMSN = StringTok(StringMidCpy(buf, iHeaderIndex), 4),
                      !.modemInfo.byRAFlag =
                          Field(buf, iHeaderIndex, 5) % 256]
         IN  IF ~b.ok \/ iHeaderIndex = -1
             THEN [st |-> b.st, rsp |-> "MR_WAITING"]
             ELSE IF s1.modemInfo.byRAFlag = AT_RSP_SBD_STATUS_RA
                     \/ s1.modemInfo.byMTQueueNbr # 0
             THEN [st |-> s1, rsp |-> "MR_SUCCESS"]
             ELSE IF byQueuedMsgs # 0
             THEN [st |-> [s1 EXCEPT !.modemInfo.byMTQueueNbr = byQueuedMsgs],
                   rsp |-> "MR_SUCCESS"]
             ELSE [st |-> s1, rsp |-> "MR_FAILED"]

\* +CSQF.  As a verdict: as GetLastRsp.  From the port: the level is parsed
\* and stored; level 0 is a failure, a level above 5 is no reply.
GetCSQRsp(s, in) ==
    IF in.rsp # "MR_PORT"
    THEN GetLastRsp(s, in)
    ELSE LET b == GetResponseBuffer(s, LINE_FEED)
             buf == b.st.byRxBuffer
             iHeaderIndex == FindSubStr(buf, << "+CSQF:" >>)
             byResponse == StringToInt(StringMidCpy(buf, iHeaderIndex)) % 256
         IN  IF ~b.ok
             THEN IF buf = << "4" >>
                  THEN [st |-> [b.st EXCEPT !.errorCodeRsp = "MEC_ERROR"],
                        rsp |-> "MR_FAILED"]
                  ELSE [st |-> b.st, rsp |-> "MR_WAITING"]
             ELSE IF iHeaderIndex > -1 /\ byResponse <= 5
             THEN [st |-> [b.st EXCEPT !.modemInfo.iSignalStrength = byResponse],
                   rsp |-> IF byResponse = 0 THEN "MR_FAILED" ELSE "MR_SUCCESS"]
             ELSE [st |-> b.st, rsp |-> "MR_WAITING"]

\* +SBDRB.  The bytes of the reply are symbols; ByteVal is the value of a
\* byte, WordOf the 16-bit word of two consecutive bytes of the buffer (the
\* modem sends words high byte first, and the comparison with the sum the
\* engine computes reads them so).
WORD_SIZE == 2

MAX_RX_FILE_LEN == 1890

ByteVal(c) ==
    CASE c = "x00" -> 0
      [] c = "x01" -> 1
      [] c = "x02" -> 2
      [] c = "x03" -> 3
      [] c = "xFF" -> 255
      [] c = "0" -> 48
      [] c = "1" -> 49
      [] c = "4" -> 52
      [] c = CARRIAGE_RETURN -> 13
      [] c = LINE_FEED -> 10

WordOf(hi, lo) == ByteVal(hi) * 256 + ByteVal(lo)

\* The byte at index i of the receive buffer, from 0.
RxByte(buf, i) == IF i < Len(buf) THEN buf[i + 1] ELSE "x00"

\* pbyRxMsg[i] = b, and the length word that overlays bytes 0 and 1.
RxStore(rx, i, b) ==
    LET n == IF i < Len(rx.pbyRxMsg) THEN Len(rx.pbyRxMsg) ELSE i + 1
        buf == [k \in 1..n |-> IF k = i + 1 THEN b ELSE RxByte(rx.pbyRxMsg, k - 1)]
    IN  [pbyRxMsg |-> buf,
         wRxMsgLen |-> IF i < WORD_SIZE
                       THEN WordOf(RxByte(buf, 0), RxByte(buf, 1))
                       ELSE rx.wRxMsgLen]

\* The loop that receives size(2) + msg(modemInfo.wMTLength) + checksum(2);
\* wRxDataCount is a static of the function and keeps its value when the
\* function returns MR_WAITING.
RECURSIVE RxBinaryData(_)
RxBinaryData(s) ==
    IF s.wRxDataCount >= s.modemInfo.wMTLength + WORD_SIZE * 2
    THEN [st |-> s, ok |-> TRUE]
    ELSE LET c == GetModemPortChar(s)
             n == s.wRxDataCount
         IN  IF ~c.ok THEN [st |-> s, ok |-> FALSE]
             ELSE RxBinaryData(
                    [c.st EXCEPT
                       !.wCalculatedCheckSum =
                           IF n >= WORD_SIZE /\ n < s.modemInfo.wMTLength + WORD_SIZE
                           THEN (@ + ByteVal(c.byData)) % 65536 ELSE @,
                       !.RxMsg = RxStore(@, n, c.byData),
                       !.wRxDataCount = (n + 1) % 65536])

\* The same loop with a count that is local to the call.
RxBinaryDataNoStatic(s) == RxBinaryData([s EXCEPT !.wRxDataCount = 0])

\* What DefineMsgTypeDestPath does for the request the message carries,
\* in.mtAct.
MTRequest(s, in) ==
    CASE in.mtAct = "POWER_CYCLE_MODEM" -> ResetModem(s, in.pcOk).st
      [] in.mtAct = "DOWNLOAD_CIS_CONFIG" -> UploadCISConfig(s).st
      [] in.mtAct = "TXT_MSG_RELAY" -> ToggleRelayState(s, 2, ~s.bRelayOn[2]).st
      [] OTHER -> s

\* The saving of the message: in.mtFile is the fate of the file it is saved
\* to, "none" when the message is kept in the buffer only.
SaveMTMessage(s, in, rsp) ==
    CASE in.mtFile = "open_err" ->
            [st |-> [s EXCEPT !.errorCodeRsp = "MEC_FILE_OPEN_ERR"],
             rsp |-> "MR_FAILED"]
      [] in.mtFile = "write_err" ->
            [st |-> [s EXCEPT !.errorCodeRsp = "MEC_FILE_WRITE_ERR"],
             rsp |-> "MR_FAILED"]
      [] OTHER -> [st |-> s, rsp |-> rsp]

\* With in.rsp a verdict, a complete message is interpreted (also one whose
\* checksum is wrong).  With "MR_PORT" the message is read from the port.
GetRxBinaryDataBufferRsp(s, in) ==
    IF in.rsp = "MR_WAITING"
    THEN [st |-> s, rsp |-> in.rsp]
    ELSE IF in.rsp # "MR_PORT"
    THEN [st |-> MTRequest(Parsed(s, in), in), rsp |-> in.rsp]
    ELSE LET r == RxBinaryData(s)
             \* the stray 0 or 4
             g == GetLastRsp(r.st, in).st
             n == g.wRxDataCount
             wData == WordOf(RxByte(g.RxMsg.pbyRxMsg, n - 2),
                             RxByte(g.RxMsg.pbyRxMsg, n - 1))
             s1 == IF g.RxMsg.wRxMsgLen = 0
                   THEN [g EXCEPT !.errorCodeRsp = "MEC_RX_NO_MSG_WAITING"]
                   ELSE IF g.RxMsg.wRxMsgLen > MAX_RX_FILE_LEN
                   THEN [g EXCEPT !.errorCodeRsp = "MEC_RX_BAD_FILELENGTH",
                                  !.RxMsg.wRxMsgLen = g.modemInfo.wMTLength]
                   ELSE g
             rsp1 == IF g.RxMsg.wRxMsgLen = 0 THEN "MR_FAILED" ELSE "MR_SUCCESS"
             bad == g.wCalculatedCheckSum # wData
             s2 == [s1 EXCEPT !.errorCodeRsp = IF bad THEN "MEC_RX_BAD_CHECKSUM" ELSE @,
                              !.wRxDataCount = 0,
                              !.RxMsg.wRxMsgLen = g.modemInfo.wMTLength]
             rsp2 == IF bad THEN "MR_FAILED" ELSE rsp1
             f == IF g.modemInfo.wMTLength # 0
                  THEN SaveMTMessage(MTRequest(s2, in), in, rsp2)
                  ELSE [st |-> s2, rsp |-> rsp2]
         IN  IF ~r.ok THEN [st |-> r.st, rsp |-> "MR_WAITING"]
             ELSE [st |-> [f.st EXCEPT !.modemInfo.wMTLength = 0], rsp |-> f.rsp]

\* ------------------------------------------- Modem.c: UpdateModemState
ModemPowerCheck(s) ==
    IF ~s.modemRunning /\ s.ATCmdState # "AT_CMD_PGMING"
    THEN PowerDownReset(s, "thRespTimeOut")
    ELSE s

RespTimeOutCheckAlwaysCode(s, in) ==
    IF TimerExpired(s, in, "thRespTimeOut")
    THEN LET s1 == SetCISPort(s, "DATA_PORT")
             s2 == IF s1.subState = "SEND_STATUS_CMD"
                   THEN [s1 EXCEPT !.byMTStatus = "FAILED_MSG"] ELSE s1
             s3 == [s2 EXCEPT !.errorCodeRsp = "MEC_RSP_TIMED_OUT"]
         IN  StopTimer([s3 EXCEPT !.ATCmdState = "AT_CMD_TIMED_OUT"], "thRespTimeOut")
    ELSE s

RespTimeOutCheck(s, in) ==
    IF TimerExpired(s, in, "thRespTimeOut")
    THEN LET s1 == SetCISPort(s, "DATA_PORT")
             s2 == IF s1.subState = "SEND_STATUS_CMD"
                   THEN [s1 EXCEPT !.byMTStatus = "FAILED_MSG"] ELSE s1
             s3 == IF s2.subState # "SEND_STATUS_CMD" /\ s2.subState # "SEND_CSQ_CMD"
                   THEN [s2 EXCEPT !.errorCodeRsp = "MEC_RSP_TIMED_OUT"] ELSE s2
         IN  StopTimer([s3 EXCEPT !.ATCmdState = "AT_CMD_TIMED_OUT"], "thRespTimeOut")
    ELSE s

CISPowerCheck(s) ==
    IF ~s.cisPowered /\ s.ATCmdState = "AT_CMD_PGMING"
    THEN PowerDownReset(s, "thCISRespTimeOut")
    ELSE s

CISTimeOutCheckNoPort(s, in) ==
    IF TimerExpired(s, in, "thCISRespTimeOut")
    THEN StopTimer([s EXCEPT !.errorCodeRsp = "MEC_RSP_TIMED_OUT",
                             !.ATCmdState = "AT_CMD_TIMED_OUT"],
                   "thCISRespTimeOut")
    ELSE s

CISTimeOutCheck(s, in) ==
    IF TimerExpired(s, in, "thCISRespTimeOut")
    THEN StopTimer(SetCISPort([s EXCEPT !.errorCodeRsp = "MEC_RSP_TIMED_OUT",
                                        !.ATCmdState = "AT_CMD_TIMED_OUT"],
                              "DATA_PORT"),
                   "thCISRespTimeOut")
    ELSE s

\* The engine finds a voice call in progress: the first time, the log
\* gets the entry "phone off hook".
OffHook(s) ==
    IF s.bPrevVoiceState THEN s
    ELSE [RecordModemLogError(s, "MODEMLOG_PHONE_OFF_HOOK")
            EXCEPT !.bPrevVoiceState = TRUE]

\* The engine finds no voice call: after a call, the log gets the entry
\* "phone back on hook".
OnHook(s) ==
    IF s.bPrevVoiceState
    THEN [RecordModemLogError(s, "MODEMLOG_PHONE_BACK_ON_HOOK")
            EXCEPT !.bPrevVoiceState = FALSE]
    ELSE s

PoweredDownStep(s) ==
    IF ~s.modemRunning THEN s
    ELSE IF s.dsr THEN OffHook(s)
    ELSE [SendCommand(OnHook(s), "UpdateModemState", "AT_CMD_SERIAL_NBR")
            EXCEPT !.ATCmdState = "AT_CMD_INITTING", !.subState = "SEND_IMEI_CMD"]

Fail(s, t) == StopTimer([s EXCEPT !.ATCmdState = "AT_CMD_FAILED"], t)

Succeed(s, t) == StopTimer([s EXCEPT !.ATCmdState = "AT_CMD_SUCCESS"], t)

\* The reply r ends the exchange: success or failure, or the wait goes on.
Conclude(r, t) ==
    CASE r.rsp = "MR_SUCCESS" -> Succeed(r.st, t)
      [] r.rsp = "MR_FAILED" -> Fail(r.st, t)
      [] OTHER -> r.st

\* A failure goes back to the step before the one that failed.
WaitOrBackOneStep(r, next, back, t) ==
    CASE r.rsp = "MR_SUCCESS" -> [r.st EXCEPT !.subState = next]
      [] r.rsp = "MR_FAILED" ->
            StopTimer([r.st EXCEPT !.subState = "SEND_SBD_AUTOREG_CMD"], t)
      [] OTHER -> r.st

\* On success go to sub-state next, on failure to sub-state back with the
\* timer stopped.
WaitOrBack(r, next, back, t) ==
    CASE r.rsp = "MR_SUCCESS" -> [r.st EXCEPT !.subState = next]
      [] r.rsp = "MR_FAILED" -> StopTimer([r.st EXCEPT !.subState = back], t)
      [] OTHER -> r.st

\* Wait for the reply r; on success go to sub-state next, on failure fail.
SendingWait(r, next) ==
    CASE r.rsp = "MR_SUCCESS" -> [r.st EXCEPT !.subState = next]
      [] r.rsp = "MR_FAILED" -> Fail(r.st, "thRespTimeOut")
      [] OTHER -> r.st

InittingStep(s, in) ==
    LET fn == "UpdateModemState"
        t == "thRespTimeOut"
        r == GetLastRsp(s, in)
    IN
    CASE s.subState = "SEND_IMEI_CMD" ->
           (CASE r.rsp = "MR_SUCCESS" ->
                   StopTimer([r.st EXCEPT !.subState = "SEND_MT_ALERT_CMD"], t)
              [] r.rsp = "MR_FAILED" -> Fail(r.st, t)
              [] OTHER -> r.st)
      [] s.subState = "SEND_MT_ALERT_CMD" ->
           IF s.dsr THEN OffHook(s)
           ELSE [SendCommand(OnHook(r.st), fn, "AT_CMD_SBD_ALERT")
                   EXCEPT !.subState = "SEND_MT_ALERT_RSP"]
      [] s.subState = "SEND_MT_ALERT_RSP" ->
           (CASE r.rsp = "MR_SUCCESS" ->
                   StopTimer([r.st EXCEPT !.subState = "SEND_SBD_AUTOREG_CMD"], t)
              [] r.rsp = "MR_FAILED" ->
                   StopTimer([r.st EXCEPT !.subState = "SEND_MT_ALERT_CMD"], t)
              [] OTHER -> r.st)
      [] s.subState = "SEND_SBD_AUTOREG_CMD" ->
           IF s.dsr THEN OffHook(s)
           ELSE [SendCommand(OnHook(s), fn, "AT_CMD_SBD_AUTO_REG")
                   EXCEPT !.subState = "SEND_SBD_AUTOREG_RSP"]
      [] s.subState = "SEND_SBD_AUTOREG_RSP" ->
           (CASE r.rsp = "MR_SUCCESS" ->
                   StopTimer([r.st EXCEPT !.subState = "SEND_SBD_DOWNLOAD_CMD"], t)
              [] r.rsp = "MR_FAILED" ->
                   StopTimer([r.st EXCEPT !.subState = "SEND_SBD_AUTOREG_CMD"], t)
              [] OTHER -> r.st)
      [] s.subState = "SEND_SBD_DOWNLOAD_CMD" ->
           IF s.dsr THEN OffHook(s)
           ELSE [SendCommand(OnHook(s), fn, "AT_CMD_SBD_INITIATE_SESSION")
                   EXCEPT !.subState = "SEND_INITIATE_TRANSFER_CMD"]
      [] s.subState = "SEND_INITIATE_TRANSFER_CMD" ->
           WaitOrBack(GetInitiateSBDSessionRsp(s, in), "HANDLE_FINAL_RSP",
                      "SEND_SBD_DOWNLOAD_CMD", t)
      [] s.subState = "HANDLE_FINAL_RSP" ->
           (CASE r.rsp = "MR_SUCCESS" ->
                   [SendCommand(StopTimer(r.st, t), fn, "AT_CMD_REVISION")
                      EXCEPT !.subState = "SEND_MODEM_VER_CMD"]
              [] r.rsp = "MR_FAILED" ->
                   StopTimer([r.st EXCEPT !.subState = "SEND_SBD_DOWNLOAD_CMD"], t)
              [] OTHER -> r.st)
      [] s.subState = "SEND_MODEM_VER_CMD" ->
           (CASE r.rsp = "MR_SUCCESS" -> Succeed(r.st, t)
              [] r.rsp = "MR_FAILED" ->
                   [SendCommand(StopTimer(r.st, t), fn, "AT_CMD_REVISION")
                      EXCEPT !.subState = "SEND_MODEM_VER_CMD"]
              [] OTHER -> r.st)
      [] OTHER -> s

\* The session is started whether a voice call is in progress or not.
InitiateEvenInCall(s, fn, t) ==
    [SendCommand(OnHook(s), fn, "AT_CMD_SBD_INITIATE_SESSION")
       EXCEPT !.subState = "SEND_INITIATE_TRANSFER_CMD"]

\* The message is in the modem: the session is started, unless a voice
\* call is in progress, which fails the command.
InitiateUnlessInCall(s, fn, t) ==
    IF s.dsr
    THEN Fail(OffHook(s), t)
    ELSE [SendCommand(OnHook(s), fn, "AT_CMD_SBD_INITIATE_SESSION")
            EXCEPT !.subState = "SEND_INITIATE_TRANSFER_CMD"]

\* The reply w to the announcement of a binary message: on READY the
\* message is sent.
SendOnReady(w, fn, t) ==
    CASE w.rsp = "MR_SUCCESS" ->
            [SendBinaryDataBuffer(w.st, fn) EXCEPT !.subState = "SEND_DATA"]
      [] w.rsp = "MR_FAILED" -> Fail(w.st, t)
      [] OTHER -> w.st

SendingStep(s, in) ==
    LET fn == "UpdateModemState"
        t == "thRespTimeOut"
        r == GetLastRsp(s, in)
    IN
    CASE s.subState = "SEND_TEXT_MSG" ->
           (CASE r.rsp = "MR_SUCCESS" -> InitiateUnlessInCall(r.st, fn, t)
              [] r.rsp = "MR_FAILED" -> Fail(r.st, t)
              [] OTHER -> r.st)
      [] s.subState = "SEND_READY_CMD" ->
           SendOnReady(GetWriteBinaryMsgRsp(s, in), fn, t)
      [] s.subState = "SEND_DATA" -> SendingWait(r, "SEND_TEXT_MSG")
      [] s.subState = "SEND_INITIATE_TRANSFER_CMD" ->
           SendingWait(GetInitiateSBDSessionRsp(s, in), "HANDLE_FINAL_RSP")
      [] s.subState = "SEND_MODEM_STATE_CMD" -> SendingWait(r, "HANDLE_FINAL_RSP")
      [] s.subState = "SEND_STATUS_CMD" ->
           SendingWait(GetSBDStatusRsp(s, in), "HANDLE_FINAL_RSP")
      [] s.subState = "SEND_CSQ_CMD" ->
           SendingWait(GetCSQRsp(s, in), "HANDLE_FINAL_RSP")
      [] s.subState = "SEND_MAILBOX_CHECK_CMD" -> SendingWait(r, "SEND_TEXT_MSG")
      [] s.subState \in { "SEND_HANGUP_CALL_CMD", "HANDLE_FINAL_RSP" } ->
           (CASE r.rsp = "MR_SUCCESS" -> Succeed(r.st, t)
              [] r.rsp = "MR_FAILED" -> Fail(r.st, t)
              [] OTHER -> r.st)
      [] OTHER -> s

RcvingStep(s, in) ==
    IF s.subState = "GET_DATA"
    THEN Conclude(GetRxBinaryDataBufferRsp(s, in), "thRespTimeOut")
    ELSE s

\* Leave the PROGRAMMING state with outcome st: the port goes back to the
\* modem and the aux timer is stopped.
PgmingExit(s, st) ==
    StopTimer([SetCISPort(s, "DATA_PORT") EXCEPT !.ATCmdState = st],
              "thCISRespTimeOut")

\* Only the manufacturer error ends the programming.
PgmingFatalOnlyManufacturer(byRxByte) == byRxByte = "M"

\* The status bytes that end the programming with a failure: manufacturer,
\* out of flash, page erase, page programming and hardware id errors.
PgmingFatal(byRxByte) == byRxByte \in { "M", "O", "E", "e", "H" }

\* Restart of the programming after a line the aux board refused.
PgmingRestart(s, fn) ==
    [SendCISPortCmd(RecoverFromBadCISCmd(s, fn), fn, "CIS_CMD_LOAD_FLASH").st
       EXCEPT !.subState = "START_CIS_PGMING_CMD"]

PgmingStep(s, in) ==
    LET fn == "UpdateModemState"
        r == GetLastRsp(s, in)
    IN
    CASE s.subState \in { "SEND_CIS_PORT_CMD", "SEND_CIS_RINGER_STATE_CMD",
                          "SEND_CIS_RELAY_STATE_CMD" } ->
           (CASE r.rsp = "MR_SUCCESS" -> PgmingExit(r.st, "AT_CMD_SUCCESS")
              [] r.rsp = "MR_FAILED" -> PgmingExit(r.st, "AT_CMD_FAILED")
              [] OTHER -> r.st)
      [] s.subState = "SEND_CIS_DOWNLOAD_CONFIG_CMD" ->
           (CASE r.rsp = "MR_SUCCESS" ->
                   [ResetTimer(r.st, "thCISRespTimeOut")
                      EXCEPT !.subState = "CIS_DOWNLOAD_CONFIG"]
              [] r.rsp = "MR_FAILED" -> PgmingExit(r.st, "AT_CMD_FAILED")
              [] OTHER -> r.st)
      [] s.subState = "CIS_DOWNLOAD_CONFIG" ->
           IF in.rsp = "MR_SUCCESS" THEN PgmingExit(s, "AT_CMD_SUCCESS") ELSE s
      [] s.subState = "SEND_CIS_VERSION_QUERY_CMD" ->
           (CASE r.rsp = "MR_SUCCESS" ->
                   [SendCISPortCmd(r.st, fn, "CIS_CMD_LOAD_FLASH").st
                      EXCEPT !.subState = "START_CIS_PGMING_CMD"]
              [] r.rsp = "MR_FAILED" -> PgmingExit(r.st, "AT_CMD_FAILED")
              [] OTHER -> r.st)
      [] s.subState = "START_CIS_PGMING_CMD" ->
           (CASE r.rsp = "MR_SUCCESS" -> [r.st EXCEPT !.subState = "CIS_PGMING_CMD"]
              [] r.rsp = "MR_FAILED" -> PgmingExit(r.st, "AT_CMD_FAILED")
              [] OTHER -> r.st)
      [] s.subState = "CIS_PGMING_CMD" ->
           LET l == SendCISLoadConfigLineCmd(s, fn)
           IN  IF ~l.ok THEN PgmingExit(l.st, "AT_CMD_SUCCESS") ELSE l.st
      [] s.subState = "CIS_PGMING_RSP" ->
           (CASE in.progByte \in PROG_CIS_RECOVERABLE -> PgmingRestart(s, fn)
              [] PgmingFatal(in.progByte) ->
                   PgmingExit(ReportSystemLogError(
                                  s, "SYS_LOG_REMOTE_CONFIG_FAILED_CISCFG"),
                              "AT_CMD_FAILED")
              [] in.progByte = "aC" -> PgmingExit(s, "AT_CMD_SUCCESS")
              [] in.progByte = "a" -> [s EXCEPT !.subState = "CIS_PGMING_CMD"]
              [] OTHER -> s)
      [] OTHER -> s

AtCmdSwitch(s, in) ==
    CASE s.ATCmdState = "AT_CMD_POWERED_DOWN" -> PoweredDownStep(s)
      [] s.ATCmdState = "AT_CMD_INITTING" -> InittingStep(s, in)
      [] s.ATCmdState = "AT_CMD_SENDING" -> SendingStep(s, in)
      [] s.ATCmdState = "AT_CMD_RCVING" -> RcvingStep(s, in)
      [] s.ATCmdState = "AT_CMD_PGMING" -> PgmingStep(s, in)
      [] OTHER -> s

\* The device refused a command of the initialization sequence, or a line
\* of the aux programming, and the engine goes on with the same exchange:
\* the command is sent again.
Retried(s, in, u) ==
    \/ /\ s.ATCmdState = "AT_CMD_INITTING"
       /\ u.ATCmdState = "AT_CMD_INITTING"
       /\ in.rsp = "MR_FAILED"
    \/ /\ s.ATCmdState = "AT_CMD_PGMING"
       /\ s.subState = "CIS_PGMING_RSP"
       /\ u.ATCmdState = "AT_CMD_PGMING"
       /\ in.progByte \in PROG_CIS_RECOVERABLE

\* obs records what the tick did: which timer it found expired, whether it
\* sent a refused command again, and the port routing it left.
\* s1 is the state after the modem power check, s3 the state after the aux
\* power check and s5 the state the tick ends in.
Observed(s, in, s1, s3, s5) ==
    [s5 EXCEPT !.obs = [tick |-> TRUE,
                        respExpired |-> TimerExpired(s1, in, "thRespTimeOut"),
                        cisExpired |-> TimerExpired(s3, in, "thCISRespTimeOut"),
                        retried |-> Retried(s, in, s5),
                        port |-> s5.cisPort]]

AfterCISPowerCheck(s, in, s1, s3) ==
    Observed(s, in, s1, s3, AtCmdSwitch(CISTimeOutCheck(s3, in), in))

AfterModemPowerCheck(s, in, s1) ==
    AfterCISPowerCheck(s, in, s1, CISPowerCheck(RespTimeOutCheck(s1, in)))

UpdateModemState(s, in) == AfterModemPowerCheck(s, in, ModemPowerCheck(s))

\* ------------------------------------------- ModemAPI.c: the API tick
NoRsp == [c \in MODEM_COMMANDS |-> "MR_NO_RESP"]

WaitForIncommingCalls(s) ==
    IF s.bSendingEnabled
    THEN StartTimer([s EXCEPT !.bSendingEnabled = FALSE], "thWaitForCalls")
    ELSE s

GetMailboxStatus(s) ==
    LET g == GetSBDStatus(s)
        r == SendReadBinaryFileCmd(g.st)
    IN  IF g.val = "SUCCESSFUL_MSG" /\ r.ok
        THEN [st |-> SetModemStateBusy(r.st, "RXING_FILE"), ok |-> TRUE]
        ELSE [st |-> g.st, ok |-> FALSE]

\* The file that was being sent has left the outbox.
FileRemoved(s) == [s EXCEPT !.fileSends = 0]

\* The file is moved out of the outbox, or deleted if it cannot be moved
\* (or the other way round): it stays only if both fail.
DisposeOfFile(s, in) == IF in.moveOk \/ in.delOk THEN FileRemoved(s) ELSE s

\* The file in szPathFileBeingSent is dispatched once more.
FileDispatched(s) ==
    [SetModemStateBusy(s, "TXING_FILE")
       EXCEPT !.fileSends = IF @ < MaxFileSends THEN @ + 1 ELSE @]

\* The first file of the outbox is looked up, or the file of the last
\* dispatch is kept once the retry delay is over.
FileChosen(s) ==
    IF s.byFileSendRetryCount = 0 THEN s ELSE StopTimer(s, "thCheckRetryDelay")

\* The file that failed for the last time is left where it is.
KeepFailedFile(s, in) == s

\* The file that failed for the last time is moved to the error subdir,
\* or deleted if it cannot be moved.
MarkFileAsErrorOrDelete(s, in) ==
    IF in.moveOk
    THEN FileRemoved(Called(s, "MarkFileAsError", "szPathFileBeingSent", "TRUE"))
    ELSE DisposeOfFile(
             Called(Called(s, "MarkFileAsError", "szPathFileBeingSent", "FALSE"),
                    "deleteFile", "szPathFileBeingSent", BoolStr(in.delOk)), in)

\* r is the result of SendBinaryFile: a file that could not be handed to
\* the engine is deleted, or marked as sent.
SendChosenFile(r) ==
    IF r.ok
    THEN [st |-> FileDispatched(r.st), res |-> "SENDING_FILE"]
    ELSE [st |-> FileRemoved(r.st), res |-> "NOT_SENDING"]

\* in.fileAvail: the outbox holds a file; in.fileOk: it can be read.  A
\* file that was dispatched and has not left the outbox is the first file
\* of the outbox.
SendFileToModem(s, in) ==
    IF s.byFileSendRetryCount = 0 /\ ~in.fileAvail /\ s.fileSends = 0
    THEN [st |-> s, res |-> "NOT_SENDING"]
    ELSE IF s.byFileSendRetryCount # 0 /\ ~TimerExpired(s, in, "thCheckRetryDelay")
    THEN [st |-> s, res |-> "WAITING_TO_SEND"]
    ELSE SendChosenFile(SendBinaryFile(FileChosen(s), in.fileOk))

SendCallStatusCmd(s, in) ==
    LET r == SendCLCCCmd(s)
    IN  IF TimerExpired(s, in, "thCheckCallStatus") /\ r.ok
        THEN ResetTimer(SetModemStateBusy(r.st, "CALL_STATUS"), "thCheckCallStatus")
        ELSE s

\* The power manager cycles the power of the aux board; pcOk is the BOOL
\* it returns.
PowerCycleCIS(s, pcOk) == Called(s, "PowerCycleCIS", "void", BoolStr(pcOk))

\* The escalation of back-to-back timeouts, outside a voice call.
EscalateTimeout(s, pcOk) ==
    IF s.dsr THEN s
    ELSE IF pcOk THEN PowerCycleCIS(s, pcOk)
    ELSE AddNewDataToQueue(PowerCycleCIS(s, pcOk), "RESET_CIS")

RearmTimeout(s) ==
    Called(ResetTimer(s, "thTimeout"), "ResetTimer", "thTimeout", "void")

\* The test of the escalation timer, with its result observed.
TimeoutTested(s, in) ==
    Called(s, "TimerExpired", "thTimeout", BoolStr(TimerExpired(s, in, "thTimeout")))

HandleTimeoutsInCall(s, in, at) ==
    IF at = "AT_CMD_TIMED_OUT"
    THEN IF TimerExpired(s, in, "thTimeout")
         THEN RearmTimeout(EscalateTimeout(
                  [TimeoutTested(Called(s, "HandleTimeouts", at, "void"), in)
                     EXCEPT !.dsr = FALSE], in.pcOk))
         ELSE TimeoutTested(Called(s, "HandleTimeouts", at, "void"), in)
    ELSE RearmTimeout(Called(s, "HandleTimeouts", at, "void"))

HandleTimeouts(s, in, at) ==
    IF at = "AT_CMD_TIMED_OUT"
    THEN IF TimerExpired(s, in, "thTimeout")
         THEN RearmTimeout(EscalateTimeout(
                  TimeoutTested(Called(s, "HandleTimeouts", at, "void"), in),
                  in.pcOk))
         ELSE TimeoutTested(Called(s, "HandleTimeouts", at, "void"), in)
    ELSE RearmTimeout(Called(s, "HandleTimeouts", at, "void"))

\* The tail shared by the aux commands: back to the state before dispatch.
RestoreToIdle(s) == [s EXCEPT !.ModemCmd = "NO_CMD", !.modemState = "MODEM_IDLE"]

RestorePrevState(s) ==
    LET s1 == [s EXCEPT !.ModemCmd = "NO_CMD", !.modemState = s.prevModemState]
    IN  IF s1.modemState # "MODEM_IDLE" THEN SetATCmdStateInit(s1) ELSE s1

\* Idle after a mailbox look that found nothing to read.
MailboxOrWait(s) ==
    LET m == GetMailboxStatus(s)
    IN  IF m.ok THEN m.st
        ELSE [WaitForIncommingCalls(m.st) EXCEPT !.modemState = "MODEM_IDLE"]

SetTerminalRspAlwaysFailed(s, at) ==
    [s EXCEPT !.ModemRsp[s.ModemCmd] = "MR_FAILED"]

SetTerminalRsp(s, at) ==
    [s EXCEPT !.ModemRsp[s.ModemCmd] =
                 IF at = "AT_CMD_SUCCESS" THEN "MR_SUCCESS" ELSE "MR_FAILED"]

RequeueOnFailure(s, at) ==
    IF at # "AT_CMD_SUCCESS" THEN AddNewDataToQueue(s, s.ModemCmd) ELSE s

RetryAlways(byCount, byMax) == TRUE

\* count++ < max: one failure more is let through.
RetryOnceMore(byCount, byMax) == byCount < byMax

\* ++count < max: the count after this failure leaves a retry.
RetryAllowed(byCount, byMax) == byCount + 1 < byMax

CleanUpOnIdle(s0, in, at) ==
    LET s == HandleTimeouts(SetTerminalRsp(s0, at), in, at)
        cmd == s.ModemCmd
        idle == [s EXCEPT !.ModemCmd = "NO_CMD", !.modemState = "MODEM_IDLE"]
    IN
    CASE cmd = "RXING_FILE" ->
           IF at = "AT_CMD_TIMED_OUT"
              /\ RetryAllowed(s.byFileReceiveRetryCount, DEFAULT_RETRY_COUNT)
           THEN LET s1 == [idle EXCEPT !.byFileReceiveRetryCount = @ + 1]
                    r == SendReadBinaryFileCmd(s1)
                IN  IF r.ok THEN SetModemStateBusy(r.st, "RXING_FILE") ELSE s1
           ELSE [WaitForIncommingCalls(idle) EXCEPT !.byFileReceiveRetryCount = 0]
      [] cmd = "TXING_FILE" ->
           IF at = "AT_CMD_SUCCESS"
           THEN LET s1 == DisposeOfFile([s EXCEPT !.byFileSendRetryCount = 0,
                                                  !.ModemCmd = "NO_CMD"], in)
                IN  IF s1.dsr
                    THEN HangupCall([s1 EXCEPT !.modemState = "MODEM_IDLE"]).st
                    ELSE MailboxOrWait(s1)
           ELSE IF RetryAllowed(s.byFileSendRetryCount, DEFAULT_RETRY_COUNT)
           THEN StartTimer([idle EXCEPT !.byFileSendRetryCount = @ + 1],
                           "thCheckRetryDelay")
           ELSE MarkFileAsErrorOrDelete(
                    WaitForIncommingCalls([idle EXCEPT !.byFileSendRetryCount = 0]), in)
      [] cmd \in { "TXING_BUFFER", "TXING_TEXT" } ->
           LET s1 == [s EXCEPT !.ModemCmd = "NO_CMD"]
           IN  IF at = "AT_CMD_SUCCESS" /\ s1.dsr
               THEN HangupCall([s1 EXCEPT !.modemState = "MODEM_IDLE"]).st
               ELSE MailboxOrWait(s1)
      [] cmd = "CALL_STATUS" -> WaitForIncommingCalls(idle)
      [] cmd = "MAILBOX_CHECK" -> MailboxOrWait([s EXCEPT !.ModemCmd = "NO_CMD"])
      [] cmd = "GATEWAY_CHECK" ->
           LET r == CheckMailbox(idle)
           IN  IF at = "AT_CMD_SUCCESS" /\ r.ok
               THEN SetModemStateBusy(r.st, "MAILBOX_CHECK") ELSE idle
      [] cmd = "GETTING_CSQ" ->
           IF at = "AT_CMD_SUCCESS"
           THEN [idle EXCEPT !.byCSQDebounceCount = 0]
           ELSE IF RetryAllowed(s.byCSQDebounceCount, DEFAULT_CSQ_DEBOUNCE_RETRIES)
           THEN ResetTimer([idle EXCEPT !.byCSQDebounceCount = @ + 1], "thCheckCSQ")
           ELSE ReportSystemLogError(
                    ClearModemSignalStrength([idle EXCEPT !.byCSQDebounceCount = 0]),
                    "SYS_LOG_IRIDIUM_ERROR")
      [] cmd = "CALL_HANGUP" -> WaitForIncommingCalls(idle)
      [] cmd \in { "RINGER_ON", "RINGER_OFF", "RELAY1_ON", "RELAY1_OFF", "RELAY2_ON",
                   "RELAY2_OFF", "RINGER_STATUS", "RELAY1_STATUS", "RELAY2_STATUS",
                   "RESET_CIS" } ->
           RestorePrevState(RequeueOnFailure(s, at))
      [] cmd \in { "UPLOAD_CIS_CONFIG", "CONFIGURE_CIS" } -> RestorePrevState(s)
      [] OTHER -> s

ApiInitSuccess(s) ==
    LET s1 == [SetATCmdStateIdle(s)
                 EXCEPT !.modemState = "MODEM_IDLE", !.prevModemState = "MODEM_IDLE",
                        !.ModemCmd = "NO_CMD",
                        !.byFileSendRetryCount = 0, !.byFileReceiveRetryCount = 0,
                        !.byCSQDebounceCount = 0]
        s2 == ResetTimer(StartTimer(StartTimer(StartTimer(
                  StopTimer(s1, "thCheckRetryDelay"), "thCheckCSQ"),
                  "thCheckGateway"), "thCheckCallStatus"), "thTimeout")
        s3 == AddNewDataToQueue(AddNewDataToQueue(AddNewDataToQueue(
                  s2, "RINGER_STATUS"), "RELAY1_STATUS"), "RELAY2_STATUS")
    IN  [s3 EXCEPT !.ModemRsp = NoRsp]

Reinit(s) == [SetATCmdStateInit(s) EXCEPT !.modemState = "MODEM_INITTING"]

CleanUpOnUnexpectedRsp(s, at) == RecordModemLogError(s, "MODEMLOG_UNEXPECTED_RSP")

\* The unexpected engine state is logged and left alone.
LogUnexpectedRsp(s, at) == CleanUpOnUnexpectedRsp(s, at)

\* The default case of the IDLE and BUSY states: the engine state at is
\* not one the API state allows.
UnexpectedRsp(s, at) ==
    [CleanUpOnUnexpectedRsp(SetATCmdStateInit(s), at)
       EXCEPT !.modemState = "MODEM_INITTING"]

ApiInitting(s, in, at) ==
    CASE at = "AT_CMD_INITTING" -> s
      [] at = "AT_CMD_SUCCESS" -> ApiInitSuccess(s)
      [] at \in { "AT_CMD_FAILED", "AT_CMD_TIMED_OUT" } ->
           LET m == GetMailboxStatus(s)
           IN  IF m.ok THEN m.st ELSE Reinit(HandleTimeouts(m.st, in, at))
      [] OTHER -> Reinit(s)

IdlePolls(s, in) ==
    LET c == SendCSQCmd(s)
    IN  IF TimerExpired(s, in, "thCheckCSQ") /\ c.ok
        THEN ResetTimer(SetModemStateBusy(c.st, "GETTING_CSQ"), "thCheckCSQ")
        ELSE IF ~s.bSendingEnabled THEN s
        ELSE LET f == SendFileToModem(s, in)
                 g == CheckGateway(f.st)
             IN  IF f.res = "SENDING_FILE" THEN f.st
                 ELSE IF TimerExpired(f.st, in, "thCheckGateway") /\ g.ok
                 THEN ResetTimer(SetModemStateBusy(g.st, "GATEWAY_CHECK"),
                                 "thCheckGateway")
                 ELSE f.st

\* The API finds a voice call in progress while idle: the first time, the
\* log gets the entry "phone off hook".
ApiOffHook(s) ==
    IF s.bPrevHookState THEN s
    ELSE [RecordModemLogError(s, "MODEMLOG_PHONE_OFF_HOOK")
            EXCEPT !.bPrevHookState = TRUE]

\* The API finds no voice call while idle: after a call, the log gets the
\* entry "phone back on hook".
ApiOnHook(s) ==
    IF s.bPrevHookState
    THEN [RecordModemLogError(s, "MODEMLOG_PHONE_BACK_ON_HOOK")
            EXCEPT !.bPrevHookState = FALSE]
    ELSE s

ApiIdle(s, in, at) ==
    IF at # "AT_CMD_IDLE"
    THEN UnexpectedRsp(s, at)
    ELSE LET s1 == HandleQueuedCommands(s)
             s2 == IF TimerExpired(s1, in, "thWaitForCalls")
                   THEN [StopTimer(s1, "thWaitForCalls") EXCEPT !.bSendingEnabled = TRUE]
                   ELSE s1
             m == GetMailboxStatus(s2)
         IN  IF s2.modemState # "MODEM_IDLE" THEN s2
             ELSE IF m.ok THEN m.st
             ELSE IF m.st.dsr THEN ApiOffHook(SendCallStatusCmd(m.st, in))
             ELSE IdlePolls(ApiOnHook(m.st), in)

ApiBusyDrains(s, in, at) ==
    CASE at \in TerminalStates ->
           CleanUpOnIdle([SetATCmdStateIdle(s) EXCEPT !.modemState = "MODEM_IDLE"],
                         in, at)
      [] at \in InFlightStates -> HandleQueuedCommands(s)
      [] OTHER -> UnexpectedRsp(s, at)

ApiBusy(s, in, at) ==
    CASE at \in TerminalStates ->
           CleanUpOnIdle([SetATCmdStateIdle(s) EXCEPT !.modemState = "MODEM_IDLE"],
                         in, at)
      [] at \in InFlightStates -> s
      [] OTHER -> UnexpectedRsp(s, at)

ApiPoweredDown(s, in, at) ==
    CASE at = "AT_CMD_INITTING" ->
           [RecordModemLogError(s, "MODEMLOG_MODEM_IS_POWERED")
              EXCEPT !.modemState = "MODEM_INITTING"]
      [] at = "AT_CMD_POWERED_DOWN" ->
           ResetTimer(StopTimer(StopTimer(StopTimer(StopTimer(
               HandleQueuedCommands(s), "thCheckCSQ"), "thCheckRetryDelay"),
               "thCheckGateway"), "thCheckCallStatus"), "thTimeout")
      [] at = "AT_CMD_TIMED_OUT" ->
           LET s1 == [s EXCEPT !.modemState = s.prevModemState]
           IN  IF s1.modemState # "MODEM_IDLE" THEN SetATCmdStateInit(s1) ELSE s1
      [] OTHER -> Reinit(s)

PowerDownDetectKeepRsp(s, at) ==
    IF at = "AT_CMD_POWERED_DOWN" /\ s.modemState # "MODEM_POWERED_DOWN"
    THEN [RecordModemLogError(s, "MODEMLOG_MODEM_POWERED_DOWN")
            EXCEPT !.modemState = "MODEM_POWERED_DOWN"]
    ELSE s

PowerDownDetect(s, at) ==
    IF at = "AT_CMD_POWERED_DOWN" /\ s.modemState # "MODEM_POWERED_DOWN"
    THEN [RecordModemLogError(s, "MODEMLOG_MODEM_POWERED_DOWN")
            EXCEPT !.modemState = "MODEM_POWERED_DOWN", !.ModemRsp = NoRsp]
    ELSE s

NeverTransparent(s) == FALSE

\* The test that opens the API tick.
InTransparentMode(s) == s.bInTransparentMode

\* The switch on modemState, with at the engine state read after its tick.
ModemStateSwitch(s, in, at) ==
    CASE s.modemState = "MODEM_INITTING" -> ApiInitting(s, in, at)
      [] s.modemState = "MODEM_IDLE" -> ApiIdle(s, in, at)
      [] s.modemState = "MODEM_BUSY" -> ApiBusy(s, in, at)
      [] s.modemState = "MODEM_POWERED_DOWN" -> ApiPoweredDown(s, in, at)
      [] OTHER -> s

\* What follows the engine's tick, which left the driver in state u.
AfterEngineTick(u, in) ==
    ModemStateSwitch(PowerDownDetect([u EXCEPT !.atCmdState = u.ATCmdState],
                                     u.ATCmdState),
                     in, u.ATCmdState)

ProcessModemStateMachine(s, in) ==
    IF InTransparentMode(s)
    THEN s
    ELSE AfterEngineTick(UpdateModemState(s, in), in)

\* SendTextMsgToModem / SendBinMsgToModem; wMsgLen 0 asks for a mailbox check.
SendTextMsgToModem(s, wMsgLen) ==
    IF s.modemState # "MODEM_IDLE" \/ s.dsr
    THEN s
    ELSE LET r == IF wMsgLen = 0 THEN CheckMailbox(s) ELSE SendWriteTextMsgCmd(s)
         IN  IF r.ok
             THEN SetModemStateBusy(r.st, IF wMsgLen = 0 THEN "MAILBOX_CHECK"
                                                         ELSE "TXING_TEXT")
             ELSE r.st

EnableReportSending(s) == [s EXCEPT !.bSendingEnabled = TRUE]

DisableReportSending(s) ==
    StopTimer([s EXCEPT !.bSendingEnabled = FALSE], "thWaitForCalls")

EnteredTransparentModemMode(s, bMode) == [s EXCEPT !.bInTransparentMode = bMode]

\* ------------------------------------------------------------ state machine
\* No call has begun: no hook entry is counted.
NoHookLog == [off |-> 0, on |-> 0, ended |-> FALSE]

NoObs ==
    [tick |-> FALSE, respExpired |-> FALSE, cisExpired |-> FALSE, retried |-> FALSE,
     port |-> "DATA_PORT"]

Init ==
    /\ ATCmdState = "AT_CMD_POWERED_DOWN"
    /\ subState = "SUBSTATE_NONE"
    /\ errorCodeRsp = "MEC_NONE"
    /\ byMTStatus = "NO_MSG"
    /\ bRingersOn = TRUE
    /\ bRelayOn = [n \in 1..2 |-> FALSE]
    /\ thRespTimeOut = 0
    /\ thCISRespTimeOut = 0
    /\ cisPort = "DATA_PORT"
    /\ cfgIndex = 0
    /\ modemRunning = FALSE
    /\ cisPowered = TRUE
    /\ dsr = FALSE
    /\ modemState = "MODEM_POWERED_DOWN"
    /\ prevModemState = "MODEM_POWERED_DOWN"
    /\ ModemCmd = "NO_CMD"
    /\ ModemRsp = NoRsp
    /\ modemQBuff = [i \in 0..(MDM_Q_LEN - 1) |-> "NO_CMD"]
    /\ wReadIndex = 0
    /\ wWriteIndex = 0
    /\ byFileSendRetryCount = 0
    /\ byFileReceiveRetryCount = 0
    /\ byCSQDebounceCount = 0
    /\ bSendingEnabled = FALSE
    /\ bInTransparentMode = FALSE
    /\ thCheckCSQ = 0
    /\ thCheckRetryDelay = 0
    /\ thWaitForCalls = 0
    /\ thCheckGateway = 0
    /\ thCheckCallStatus = 0
    /\ thTimeout = 1
    /\ atCmdState = "AT_CMD_POWERED_DOWN"
    /\ obs = NoObs
    /\ sent = <<>>
    /\ resends = 0
    /\ ret = NoRet
    /\ modemInfo = NoModemInfo
    /\ byBinMsgBuffer = <<>>
    /\ rxQueue = <<>>
    /\ byRxBuffer = <<>>
    /\ txBytes = <<>>
    /\ payload = <<>>
    /\ sysLog = <<>>
    /\ wRxDataCount = 0
    /\ wCalculatedCheckSum = 0
    /\ RxMsg = NoRxMsg
    /\ calls = <<>>
    /\ bPrevVoiceState = FALSE
    /\ fileSends = 0
    /\ bFoundFirstEOL = FALSE
    /\ bPrevHookState = FALSE
    /\ recordQ = <<>>
    /\ hookLog = NoHookLog

\* The domain of an input that the step reads only under condition c.
Dom(c, full, dflt) == IF c THEN full ELSE {dflt}

\* The requests an MT message can carry.
MTActs == { "none", "POWER_CYCLE_MODEM", "DOWNLOAD_CIS_CONFIG" }

\* The inputs of one tick, pruned to those the tick can read in the
\* current state.  api: the tick is the API tick (else the engine's alone).
TickInputs(api) ==
    LET parsing ==
            \/ ATCmdState \in { "AT_CMD_SENDING", "AT_CMD_RCVING" }
            \/ ATCmdState = "AT_CMD_INITTING"
               /\ subState \notin { "SEND_SBD_AUTOREG_CMD", "SEND_SBD_DOWNLOAD_CMD" }
            \/ ATCmdState = "AT_CMD_PGMING"
               /\ subState \notin { "CIS_PGMING_CMD", "CIS_PGMING_RSP" }
        sbdix == ATCmdState \in { "AT_CMD_INITTING", "AT_CMD_SENDING" }
                 /\ subState = "SEND_INITIATE_TRANSFER_CMD"
        sbdsx == ATCmdState = "AT_CMD_SENDING" /\ subState = "SEND_STATUS_CMD"
        idle == api /\ modemState = "MODEM_IDLE"
    IN  { in \in
          [ rsp : Dom(parsing, { "MR_SUCCESS", "MR_FAILED", "MR_WAITING" }, "MR_WAITING"),
            thRespTimeOut : Dom(thRespTimeOut # 0, BOOLEAN, FALSE),
            thCISRespTimeOut : Dom(thCISRespTimeOut # 0, BOOLEAN, FALSE),
            mt : Dom(sbdix, mailboxcheck_rsp, "NO_MSG"),
            ra : Dom(sbdsx, 0..1, 0),
            mtAct : Dom(ATCmdState = "AT_CMD_RCVING",
                        IF api THEN MTActs ELSE { "none", "POWER_CYCLE_MODEM" }, "none"),
            progByte : Dom(ATCmdState = "AT_CMD_PGMING" /\ subState = "CIS_PGMING_RSP",
                           ProgBytes, "none"),
            pcOk : BOOLEAN,
            thCheckCSQ : Dom(idle /\ thCheckCSQ # 0, BOOLEAN, FALSE),
            thCheckRetryDelay : Dom(idle /\ thCheckRetryDelay # 0, BOOLEAN, FALSE),
            thWaitForCalls : Dom(idle /\ thWaitForCalls # 0, BOOLEAN, FALSE),
            thCheckGateway : Dom(idle /\ thCheckGateway # 0, BOOLEAN, FALSE),
            thCheckCallStatus : Dom(idle /\ dsr /\ thCheckCallStatus # 0, BOOLEAN, FALSE),
            thTimeout : Dom(api /\ thTimeout # 0, BOOLEAN, FALSE),
            fileAvail : Dom(idle /\ (bSendingEnabled \/ thWaitForCalls # 0),
                            BOOLEAN, FALSE),
            fileOk : Dom(idle /\ (bSendingEnabled \/ thWaitForCalls # 0), BOOLEAN, TRUE),
            moveOk : { TRUE }, delOk : { TRUE } ] :
          /\ in.rsp = "MR_WAITING" => in.mt = "NO_MSG" /\ in.ra = 0 /\ in.mtAct = "none"
          /\ in.ra = 1 => in.rsp = "MR_SUCCESS"
          /\ in.thRespTimeOut \/ in.thCISRespTimeOut => in.rsp = "MR_WAITING"
          /\ ~in.pcOk => in.mtAct = "POWER_CYCLE_MODEM" \/ in.thTimeout
          /\ in.thTimeout =>
                in.thRespTimeOut \/ in.thCISRespTimeOut \/ ATCmdState = "AT_CMD_TIMED_OUT"
          /\ ~in.fileOk => in.fileAvail }

\* A tick of the state machine.
Do(s) == Commit(s)

\* A call from the layer above or a change of the environment: no tick is
\* observed, and a call that moves the engine ends the count of re-sends.
Call(s) ==
    Commit([s EXCEPT !.obs = NoObs,
                     !.resends = IF s.ATCmdState = ATCmdState THEN @ ELSE 0])

\* ----------------------------------------- the protocol engine on its own
\* The public operations of Modem.c, called in any order: the engine must
\* keep its contract whatever the layer above does.
EngineCalls ==
    { "CheckMailbox", "CheckGateway", "SendCSQCmd", "SendReadBinaryFileCmd",
      "SendWriteTextMsgCmd", "SendBinaryFile", "SendBinaryBuffer", "SendCLCCCmd",
      "SendCallHangupCmd",
      "SendSetRingerCmd", "SendGetRingerStatusCmd", "SendSetRelayCmd",
      "SendGetRelayStatusCmd", "SendCISResetCmd", "SendProgramCISCmd",
      "SendDownloadCISCmd" }

EngineCall(s, f) ==
    CASE f = "CheckMailbox" -> CheckMailbox(s)
      [] f = "CheckGateway" -> CheckGateway(s)
      [] f = "SendCSQCmd" -> SendCSQCmd(s)
      [] f = "SendReadBinaryFileCmd" -> SendReadBinaryFileCmd(s)
      [] f = "SendWriteTextMsgCmd" -> SendWriteTextMsgCmd(s)
      [] f = "SendBinaryFile" -> SendBinaryFile(s, TRUE)
      [] f = "SendBinaryBuffer" -> SendBinaryBuffer(s, << 1 >>)
      [] f = "SendCLCCCmd" -> SendCLCCCmd(s)
      [] f = "SendCallHangupCmd" -> SendCallHangupCmd(s)
      [] f = "SendSetRingerCmd" -> SendSetRingerCmd(s, TRUE)
      [] f = "SendGetRingerStatusCmd" -> SendGetRingerStatusCmd(s)
      [] f = "SendSetRelayCmd" -> SendSetRelayCmd(s, 1, FALSE)
      [] f = "SendGetRelayStatusCmd" -> SendGetRelayStatusCmd(s, 1)
      [] f = "SendCISResetCmd" -> SendCISResetCmd(s)
      [] f = "SendProgramCISCmd" -> SendProgramCISCmd(s)
      [] f = "SendDownloadCISCmd" -> SendDownloadCISCmd(s)

\* The count of consecutive re-sends within one exchange; it restarts when
\* the engine reports an outcome or is brought back to IDLE or POWERED_DOWN.
CountResends(s, u) ==
    [u EXCEPT !.resends =
        IF u.obs.retried THEN (IF @ < MaxResend THEN @ + 1 ELSE @)
        ELSE IF u.ATCmdState \in { "AT_CMD_INITTING", "AT_CMD_PGMING" }
                /\ u.ATCmdState = s.ATCmdState THEN @
        ELSE 0]

EUpdateModemState ==
    \E in \in TickInputs(FALSE) :
        Do(CountResends(Cur, UpdateModemState(Cur, in)))

EDispatch ==
    \E f \in EngineCalls : Call(EngineCall(Cur, f).st)

\* The layer above acknowledges an outcome it has observed.
ESetATCmdStateIdle ==
    /\ ATCmdState \in TerminalStates
    /\ Call(SetATCmdStateIdle(Cur))

ESetATCmdStateInit ==
    /\ ATCmdState # "AT_CMD_POWERED_DOWN"
    /\ Call(SetATCmdStateInit(Cur))

EGetSBDStatus ==
    /\ byMTStatus # "NO_MSG"
    /\ Call(GetSBDStatus(Cur).st)

EGetErrorCodeRsp ==
    /\ errorCodeRsp # "MEC_NONE"
    /\ Call(GetErrorCodeRsp(Cur))

\* ------------------------------------------------------------- environment
EnvModemPower == Call([Cur EXCEPT !.modemRunning = ~@])

EnvCISPower == Call([Cur EXCEPT !.cisPowered = ~@])

EnvDSR == Call([Cur EXCEPT !.dsr = ~@])

EngineNext ==
    \/ EUpdateModemState
    \/ EDispatch
    \/ ESetATCmdStateIdle
    \/ ESetATCmdStateInit
    \/ EGetSBDStatus
    \/ EGetErrorCodeRsp
    \/ EnvModemPower
    \/ EnvCISPower
    \/ EnvDSR

EngineSpec == Init /\ [][EngineNext]_vars

\* ------------------------------------------------- properties of the engine
ModemDispatchFns ==
    { "SendWriteTextMsgCmd", "SendBinaryFile", "SendBinaryBuffer", "CheckGateway",
      "CheckMailbox", "SendCSQCmd", "SendReadBinaryFileCmd", "SendCLCCCmd",
      "SendCallHangupCmd" }

AuxDispatchFns ==
    { "SendDownloadCISCmd", "SendProgramCISCmd", "SendCISResetCmd", "SendSetRingerCmd",
      "SendGetRingerStatusCmd", "SendSetRelayCmd", "SendGetRelayStatusCmd" }

\* C1: the engine never has two commands in flight.  Every write to the
\* UART made by a modem dispatch function happens with the engine IDLE,
\* every write made by an aux dispatch function with the engine IDLE or
\* POWERED_DOWN, and while the engine is INITTING, SENDING, RCVING or
\* PROGRAMMING the only writes are those of the tick that carries on the
\* exchange in flight: no dispatch function starts a new command.
C1_OneCommandInFlight ==
    \A i \in 1..Len(sent) :
        /\ sent[i].fn \in ModemDispatchFns => sent[i].at = "AT_CMD_IDLE"
        /\ sent[i].fn \in AuxDispatchFns =>
               sent[i].at \in { "AT_CMD_IDLE", "AT_CMD_POWERED_DOWN" }
        /\ sent[i].at \in { "AT_CMD_INITTING", "AT_CMD_SENDING", "AT_CMD_RCVING",
                            "AT_CMD_PGMING" } => sent[i].fn = "UpdateModemState"

\* A mailbox check was dispatched: the engine is sending its first command.
C1_Witness ==
    /\ Len(sent) = 1
    /\ sent[1].fn = "CheckMailbox"
    /\ ATCmdState = "AT_CMD_SENDING"
    /\ subState = "SEND_MAILBOX_CHECK_CMD"

\* C2: once the engine is in a terminal state, IDLE or POWERED_DOWN, the
\* port routing is DATA_PORT: every way out of the PROGRAMMING state
\* (success, failure, timeout, loss of power) gives the port back to the modem.
C2_PortRestored ==
    ATCmdState \in TerminalStates \cup { "AT_CMD_IDLE", "AT_CMD_POWERED_DOWN" }
        => cisPort = "DATA_PORT"

\* An aux exchange has just ended by the expiry of the aux timer.
C2_Witness ==
    /\ obs.cisExpired
    /\ ATCmdState = "AT_CMD_TIMED_OUT"
    /\ cisPort = "DATA_PORT"

\* C9: a tick that finds the modem response timer expired leaves the port
\* routing at DATA_PORT and the engine TIMED_OUT; it records
\* MEC_RSP_TIMED_OUT unless the sub-state is SEND_STATUS_CMD (+SBDSX) or
\* SEND_CSQ_CMD (+CSQF), in which case the error code is left as it was;
\* in sub-state SEND_STATUS_CMD it sets the MT status to FAILED_MSG.
C9_RespTimeout ==
    [][obs'.respExpired =>
          /\ cisPort' = "DATA_PORT"
          /\ ATCmdState' = "AT_CMD_TIMED_OUT"
          /\ thRespTimeOut' = 0
          /\ IF subState \in { "SEND_STATUS_CMD", "SEND_CSQ_CMD" }
             THEN errorCodeRsp' = errorCodeRsp
             ELSE errorCodeRsp' = "MEC_RSP_TIMED_OUT"
          /\ subState = "SEND_STATUS_CMD" => byMTStatus' = "FAILED_MSG"]_vars

\* The timer expired during a signal quality query that followed a failed
\* command: the engine is TIMED_OUT and the older error code is still there.
C9_Witness ==
    /\ obs.respExpired
    /\ subState = "SEND_CSQ_CMD"
    /\ ATCmdState = "AT_CMD_TIMED_OUT"
    /\ errorCodeRsp = "MEC_ERROR"

\* ------------------------------------------------ the driver as a whole
\* The scenario of the driver specifications: no MT message waits at the
\* gateway and the escalation timer of back-to-back timeouts does not run
\* out; the handset stays on hook and report sending stays disabled.
Quiet(in) == in.mt = "NO_MSG" /\ ~in.thTimeout /\ in.pcOk

Tick ==
    \E in \in { i \in TickInputs(TRUE) : Quiet(i) } :
        Do(ProcessModemStateMachine(Cur, in))

\* The application asks for the ringer status.
AppRingerStatus == Call(SendPhoneRingerStatusCmd(Cur).st)

\* The modem is switched on and off, the aux board stays powered.
Next ==
    \/ Tick
    \/ AppRingerStatus
    \/ EnvModemPower

Spec == Init /\ [][Next]_vars

\* ----------------------------------------------- properties of the driver
\* The pending entries of the queue, oldest first: the slots from the read
\* index up to the write index.
PendingOf(buf, r, w) ==
    [k \in 1..((w - r + MDM_Q_LEN) % MDM_Q_LEN) |-> buf[(r + k - 1) % MDM_Q_LEN]]

Pending == PendingOf(modemQBuff, wReadIndex, wWriteIndex)

IsPending(q, c) == \E i \in 1..Len(q) : q[i] = c

Before(q, a, b) == \E i, j \in 1..Len(q) : i < j /\ q[i] = a /\ q[j] = b

\* The step is an API tick that finds the command in flight finished.
ProcessesOutcome ==
    /\ obs'.tick
    /\ modemState = "MODEM_BUSY"
    /\ atCmdState' \in TerminalStates

TerminalRsp(at) == IF at = "AT_CMD_SUCCESS" THEN "MR_SUCCESS" ELSE "MR_FAILED"

\* C3 (as stated): each time the API layer processes a terminal outcome of
\* the command in flight, that command's slot, and no other, has gone from
\* WAITING to a terminal value once the tick completes.
C3_ExactlyOneSlot ==
    [][ProcessesOutcome =>
          /\ ModemRsp[ModemCmd] = "MR_WAITING"
          /\ ModemRsp'[ModemCmd] \in { "MR_SUCCESS", "MR_FAILED" }
          /\ \A d \in MODEM_COMMANDS \ { ModemCmd } : ModemRsp'[d] = ModemRsp[d]]_vars

\* C3 (amended): each time the API layer processes a terminal outcome of
\* the command in flight, that command's slot was WAITING and, once the
\* tick completes, holds the terminal value of the outcome (SUCCESS for
\* SUCCESS, FAILED otherwise), or WAITING again when the same tick put
\* the command back in the queue or dispatched it again; any other slot
\* that changed in the tick changed to WAITING.
C3_SlotOfOutcome ==
    [][ProcessesOutcome =>
          /\ ModemRsp[ModemCmd] = "MR_WAITING"
          /\ ModemRsp'[ModemCmd] \in { TerminalRsp(atCmdState'), "MR_WAITING" }
          /\ ModemRsp'[ModemCmd] = "MR_WAITING" =>
                 \/ IsPending(PendingOf(modemQBuff', wReadIndex', wWriteIndex'), ModemCmd)
                 \/ ModemCmd' = ModemCmd
          /\ \A d \in MODEM_COMMANDS \ { ModemCmd } :
                 ModemRsp'[d] # ModemRsp[d] => ModemRsp'[d] = "MR_WAITING"]_vars

\* The tick has processed the timeout of a signal quality query: its slot
\* holds FAILED and the API is idle again.
C3_Witness ==
    /\ obs.tick
    /\ atCmdState = "AT_CMD_TIMED_OUT"
    /\ modemState = "MODEM_IDLE"
    /\ ModemCmd = "NO_CMD"
    /\ ModemRsp["GETTING_CSQ"] = "MR_FAILED"

\* C4: no aux command occurs more than once among the pending entries of
\* the queue.
C4_NoDuplicates ==
    \A i, j \in 1..Len(Pending) :
        i # j /\ Pending[i] \in AuxCmds => Pending[i] # Pending[j]

\* The initialization has just succeeded again while probes of the
\* initialization before were still pending: the three probes are pending
\* once each, in an order other than that of their admission.
C4_Witness ==
    /\ obs.tick
    /\ atCmdState = "AT_CMD_SUCCESS"
    /\ modemState = "MODEM_IDLE"
    /\ ModemRsp = NoRsp
    /\ Pending = << "RELAY1_STATUS", "RELAY2_STATUS", "RINGER_STATUS" >>

\* C6: the read index of the queue moves only in an API tick that found the
\* engine IDLE or POWERED_DOWN, and by one entry.
C6_DrainWhenIdle ==
    [][wReadIndex' # wReadIndex =>
          /\ obs'.tick
          /\ atCmdState' \in { "AT_CMD_IDLE", "AT_CMD_POWERED_DOWN" }
          /\ wReadIndex' = (wReadIndex + 1) % MDM_Q_LEN]_vars

\* A tick with the engine POWERED_DOWN has taken a command from the queue
\* and dispatched it.
C6_Witness ==
    /\ obs.tick
    /\ atCmdState = "AT_CMD_POWERED_DOWN"
    /\ modemState = "MODEM_BUSY"
    /\ ModemCmd \in AuxCmds

\* C10 (as stated): the slot of a command is WAITING while the command is
\* pending in the queue or in flight, and once the API layer has processed
\* its outcome the slot holds SUCCESS for SUCCESS and FAILED otherwise.
C10_ResponseSlots ==
    /\ \A i \in 1..Len(Pending) : ModemRsp[Pending[i]] = "MR_WAITING"
    /\ modemState = "MODEM_BUSY" => ModemRsp[ModemCmd] = "MR_WAITING"

\* ------------------------------------- the aux board with the modem off
\* The application switches the ringer on and off.
AppToggleRinger ==
    \E bRingerOn \in BOOLEAN : Call(TogglePhoneRinger(Cur, bRingerOn).st)

\* The modem stays off; the aux board loses and regains power.
AuxNext ==
    \/ Tick
    \/ AppToggleRinger
    \/ EnvCISPower

AuxSpec == Init /\ [][AuxNext]_vars

\* C5 (as stated): the queue preserves the order of arrival.  Two commands
\* that are pending before and after a step are in the same order after
\* it, so that the one requested first is dispatched first; a request that
\* is suppressed as a duplicate moves nothing.
C5_ArrivalOrder ==
    [][\A a, b \in AuxCmds :
          LET q == PendingOf(modemQBuff', wReadIndex', wWriteIndex')
          IN  Before(Pending, a, b) /\ IsPending(q, a) /\ IsPending(q, b)
                 => Before(q, a, b)]_vars

\* ------------------------------------------ the engine with a fair clock
\* The tick with no reply from the device and no timer expired.
NoInput ==
    [rsp |-> "MR_WAITING", thRespTimeOut |-> FALSE, thCISRespTimeOut |-> FALSE,
     mt |-> "NO_MSG", ra |-> 0, mtAct |-> "none", progByte |-> "none", pcOk |-> TRUE,
     thCheckCSQ |-> FALSE, thCheckRetryDelay |-> FALSE, thWaitForCalls |-> FALSE,
     thCheckGateway |-> FALSE, thCheckCallStatus |-> FALSE, thTimeout |-> FALSE,
     fileAvail |-> FALSE, fileOk |-> TRUE, moveOk |-> TRUE, delOk |-> TRUE,
     mtFile |-> "none"]

LUpdateModemState ==
    \E in \in TickInputs(FALSE) : Do(UpdateModemState(Cur, in))

\* The tick that finds timer t, armed in phase p, expired.
LExpire(t, p) ==
    /\ Cur[t] = p
    /\ \E u \in { UpdateModemState(Cur, [NoInput EXCEPT ![t] = TRUE]) } : Do(u)

\* The commands the layer above dispatches in this scenario: a mailbox
\* check, the reading of an MT message, the programming of the aux board
\* and a query of the ringer.
LiveCalls ==
    { "CheckMailbox", "SendReadBinaryFileCmd", "SendProgramCISCmd",
      "SendGetRingerStatusCmd" }

LDispatch == \E f \in LiveCalls : Call(EngineCall(Cur, f).st)

LiveNext ==
    \/ LUpdateModemState
    \/ LDispatch
    \/ ESetATCmdStateIdle
    \/ ESetATCmdStateInit
    \/ EnvModemPower
    \/ EnvCISPower

\* Ticks keep occurring and the clock advances: a timer that stays armed
\* without being started again is found expired by a tick.  A timer that
\* is started again changes phase, and its deadline starts afresh.
LiveFair == \A t \in EngineTimers : \A p \in 1..2 : WF_vars(LExpire(t, p))

LiveSpec == Init /\ [][LiveNext]_vars /\ LiveFair

\* A command dispatched by the layer above is in flight.
Dispatched == ATCmdState \in { "AT_CMD_SENDING", "AT_CMD_RCVING", "AT_CMD_PGMING" }

\* The command in flight was cut short from outside: power was lost or the
\* layer above re-initialized the engine.
CutShort == ATCmdState \in { "AT_CMD_POWERED_DOWN", "AT_CMD_INITTING" }

\* C7 (as stated): as long as ticks keep occurring, every dispatched
\* command eventually reaches a terminal outcome (SUCCESS, FAILED or
\* TIMED_OUT), whatever the device sends or fails to send.  The claim is
\* about the device: a command cut short by a loss of power or by a
\* re-initialization is not held against it.
C7_EventualOutcome == Dispatched ~> (ATCmdState \in TerminalStates \/ CutShort)

\* C7 (amended): while a dispatched command is in flight a deadline is
\* armed, and the tick that finds a deadline expired moves the engine to
\* TIMED_OUT; a tick never replaces a terminal outcome by another one;
\* and as long as ticks keep occurring, every dispatched command
\* eventually reaches a terminal outcome unless power is lost
\* (POWERED_DOWN), the layer above re-initializes the engine (INITTING),
\* or the aux board refuses its programming ('N'), upon which the engine
\* starts the programming again with a fresh deadline.
C7_Deadline ==
    /\ [](Dispatched => thRespTimeOut # 0 \/ thCISRespTimeOut # 0)
    /\ [][obs'.respExpired \/ obs'.cisExpired
              => ATCmdState' = "AT_CMD_TIMED_OUT"]_vars
    /\ [][(ATCmdState \in TerminalStates) /\ obs'.tick
              => ATCmdState' \in { ATCmdState, "AT_CMD_POWERED_DOWN" }]_vars
    /\ Dispatched ~> (ATCmdState \in TerminalStates \/ CutShort \/ obs.retried)

\* The deadline of a mailbox check has expired: the check has TIMED_OUT.
C7_Witness ==
    /\ obs.respExpired
    /\ ATCmdState = "AT_CMD_TIMED_OUT"
    /\ subState = "SEND_MAILBOX_CHECK_CMD"
    /\ thRespTimeOut = 0

\* ------------------------------------------------- the sending of reports
\* The scenario: report sending is enabled, the outbox may hold a file,
\* the gateway may hold an MT message; the modem, once switched on, stays
\* on, the aux board answers its probes, and no MT message asks for an
\* action of the driver.
SendQuiet(in) ==
    /\ in.pcOk /\ ~in.thTimeout /\ in.mtAct = "none"
    /\ ATCmdState = "AT_CMD_PGMING" => in.rsp # "MR_FAILED" /\ ~in.thCISRespTimeOut

SendTick ==
    \E in \in { i \in TickInputs(TRUE) : SendQuiet(i) } :
        Do(CountResends(Cur, ProcessModemStateMachine(Cur, in)))

AppEnableSending == Call(EnableReportSending(Cur))

EnvModemOn == ~modemRunning /\ Call([Cur EXCEPT !.modemRunning = TRUE])

SendNext ==
    \/ SendTick
    \/ AppEnableSending
    \/ EnvModemOn

SendSpec == Init /\ [][SendNext]_vars

\* C8 (as stated): the number of consecutive re-sends of a command after
\* failures reported by the device, with no outcome reported, is bounded
\* by the retry count; this includes the initialization sequence.
C8_BoundedRetries == resends <= DEFAULT_RETRY_COUNT

\* C8 (amended): the re-sends of a report file, the re-reads of an MT
\* message and the repeats of the signal quality query are bounded: their
\* counts stay below the retry count (the debounce count for the signal
\* quality), and the tick that processes the failure of a file that was
\* sent either counts one more retry and arms the retry delay, or, at the
\* limit, sets the count back to 0 and schedules no retry.
C8_BoundedCounts ==
    /\ [](/\ byFileSendRetryCount < DEFAULT_RETRY_COUNT
          /\ byFileReceiveRetryCount < DEFAULT_RETRY_COUNT
          /\ byCSQDebounceCount < DEFAULT_CSQ_DEBOUNCE_RETRIES)
    /\ [][obs'.tick /\ modemState = "MODEM_BUSY" /\ ModemCmd = "TXING_FILE"
              /\ atCmdState' \in { "AT_CMD_FAILED", "AT_CMD_TIMED_OUT" }
              => IF byFileSendRetryCount + 1 < DEFAULT_RETRY_COUNT
                 THEN /\ byFileSendRetryCount' = byFileSendRetryCount + 1
                      /\ thCheckRetryDelay' # 0
                 ELSE /\ byFileSendRetryCount' = 0
                      /\ thCheckRetryDelay' = 0]_vars

\* The last retry of a file is scheduled: one more failure ends the sending.
C8_Witness ==
    /\ obs.tick
    /\ byFileSendRetryCount = DEFAULT_RETRY_COUNT - 1
    /\ thCheckRetryDelay # 0
    /\ ModemRsp["TXING_FILE"] = "MR_FAILED"

\* ------------------------------------------------------ transparent mode
\* The scenario: the modem is switched on once and the driver initializes
\* and polls it; the application enters and leaves the transparent mode
\* at any time.  The tick is marked as observed even when it returns at once.
TransTick ==
    \E in \in { i \in TickInputs(TRUE) : Quiet(i) } :
        Do([ProcessModemStateMachine(Cur, in) EXCEPT !.obs.tick = TRUE])

AppTransparentMode ==
    \E bMode \in BOOLEAN : Call(EnteredTransparentModemMode(Cur, bMode))

TransNext ==
    \/ TransTick
    \/ AppTransparentMode
    \/ EnvModemOn

TransSpec == Init /\ [][TransNext]_vars

\* The state of the engine and of the API layer, timers included.
progVars ==
    << ATCmdState, subState, errorCodeRsp, byMTStatus, bRingersOn, bRelayOn,
       thRespTimeOut, thCISRespTimeOut, cisPort, cfgIndex, modemState,
       prevModemState, ModemCmd, ModemRsp, modemQBuff, wReadIndex, wWriteIndex,
       byFileSendRetryCount, byFileReceiveRetryCount, byCSQDebounceCount,
       bSendingEnabled, thCheckCSQ, thCheckRetryDelay, thWaitForCalls,
       thCheckGateway, thCheckCallStatus, thTimeout >>

\* C11: while the transparent mode is set, an API tick is a no-op: a step
\* that starts and ends in transparent mode (any step but the leaving of
\* the mode) changes no state of the engine or of the API layer and no
\* timer, does not run the engine tick (no timer is found expired, the
\* engine state the API last saw stays) and writes nothing to the UART.
C11_TransparentNoOp ==
    [][bInTransparentMode /\ bInTransparentMode' =>
          /\ UNCHANGED progVars
          /\ atCmdState' = atCmdState
          /\ ~obs'.respExpired /\ ~obs'.cisExpired
          /\ sent' = <<>>]_vars

\* A tick has occurred in transparent mode while the engine was waiting
\* for a reply of the initialization with its deadline armed.
C11_Witness ==
    /\ bInTransparentMode
    /\ obs.tick
    /\ ATCmdState = "AT_CMD_INITTING"
    /\ thRespTimeOut # 0
    /\ sent = <<>>

\* ------------------------------------------------- the reset of the modem
\* The scenario: the engine with its commands in flight, the handset
\* going off and on hook, and the layer above resetting the modem at any
\* time; the power manager may refuse.
EResetModem ==
    \E pcOk \in BOOLEAN :
        LET r == ResetModem(Cur, pcOk)
        IN  Call([r.st EXCEPT !.ret = [fn |-> "ResetModem", ok |-> r.ok]])

ResetNext ==
    \/ LUpdateModemState
    \/ LDispatch
    \/ ESetATCmdStateIdle
    \/ EnvModemPower
    \/ EnvDSR
    \/ EResetModem

ResetSpec == Init /\ [][ResetNext]_vars

\* The state of the engine: states, timers, port routing and buffers,
\* and the modem information.
engineVars ==
    << ATCmdState, subState, errorCodeRsp, thRespTimeOut, thCISRespTimeOut,
       cisPort, cfgIndex, byMTStatus, bRingersOn, bRelayOn >>

\* C12: ResetModem called during a voice call returns FALSE and leaves the
\* engine state, sub-state, timers, buffers and modem information as they
\* were, as does any call that returns FALSE; when it returns TRUE the
\* engine is POWERED_DOWN with sub-state NONE, no error code, the modem
\* information cleared (the ringer and relay flags are kept), the port
\* routing at DATA_PORT and the response timer stopped.
C12_ResetModem ==
    [][ret'.fn = "ResetModem" =>
          /\ dsr => ~ret'.ok
          /\ ~ret'.ok => UNCHANGED engineVars
          /\ ret'.ok =>
                /\ ATCmdState' = "AT_CMD_POWERED_DOWN"
                /\ subState' = "SUBSTATE_NONE"
                /\ errorCodeRsp' = "MEC_NONE"
                /\ byMTStatus' = "NO_MSG"
                /\ cisPort' = "DATA_PORT"
                /\ thRespTimeOut' = 0
                /\ bRingersOn' = bRingersOn /\ bRelayOn' = bRelayOn]_vars

\* The modem was reset while it was running: the engine is POWERED_DOWN
\* with its response timer stopped.
C12_Witness ==
    /\ ret = [fn |-> "ResetModem", ok |-> TRUE]
    /\ modemRunning
    /\ ATCmdState = "AT_CMD_POWERED_DOWN"
    /\ thRespTimeOut = 0

\* ResetModem was refused during a voice call with a command in flight.
C12_RefusedInCall ==
    /\ ret = [fn |-> "ResetModem", ok |-> FALSE]
    /\ dsr
    /\ ATCmdState = "AT_CMD_SENDING"
    /\ thRespTimeOut # 0


\* ------------------------------------------- the binary upload, byte by byte
\* The layer above hands payloads to SendBinaryBuffer and the modem answers
\* with lines of bytes; the replies of the other exchanges stay verdicts.
\* The bytes of reply the scenario lets gather in the line buffer.
MaxLineLen == 7

\* The payload lengths: none, short, the shortest whose sum can pass a WORD,
\* the longest the modem takes, and one byte more.
PayloadLens == { 0, 1, 258, MAX_FILE_LEN, MAX_FILE_LEN + 1 }

Payloads ==
    { [i \in 1..n |-> IF i % 2 = 1 THEN f[1] ELSE f[2]] :
        n \in PayloadLens, f \in { << 255, 255 >>, << 255, 1 >>, << 1, 2 >> } }

\* What the modem may send in reply, once the bytes it sent before are read.
ReplyLines ==
    { << "R", "E", "A", "D", "Y", CARRIAGE_RETURN, LINE_FEED >>,
      << "R", "E", "A", "D", "Y" >>,
      << "0", CARRIAGE_RETURN, LINE_FEED >>,
      << "1", CARRIAGE_RETURN, LINE_FEED >>,
      << "2", CARRIAGE_RETURN, LINE_FEED >>,
      << "3", CARRIAGE_RETURN, LINE_FEED >>,
      << "4", CARRIAGE_RETURN, LINE_FEED >>,
      << CARRIAGE_RETURN, LINE_FEED >> }

\* The sub-states whose reply is read from the port in this scenario.
PortParsed ==
    /\ ATCmdState = "AT_CMD_SENDING"
    /\ subState \in { "SEND_READY_CMD", "SEND_DATA", "SEND_TEXT_MSG",
                      "SEND_MAILBOX_CHECK_CMD" }

UTick ==
    \E rsp \in IF PortParsed THEN { "MR_PORT" } ELSE { "MR_WAITING", "MR_SUCCESS" },
       e \in BOOLEAN :
        Do(UpdateModemState(Cur, [NoInput EXCEPT !.rsp = rsp, !.thRespTimeOut = e]))

USendBinaryBuffer ==
    \E P \in Payloads :
        LET r == SendBinaryBuffer(Cur, P)
        IN  Call([r.st EXCEPT !.payload = IF r.ok THEN P ELSE @])

UCheckMailbox == Call(CheckMailbox(Cur).st)

EnvModemReplies ==
    /\ PortParsed
    /\ rxQueue = <<>>
    /\ \E line \in ReplyLines :
        /\ Len(byRxBuffer) + Len(line) <= MaxLineLen
        /\ Call([Cur EXCEPT !.rxQueue = line])

UploadNext ==
    \/ UTick
    \/ USendBinaryBuffer
    \/ UCheckMailbox
    \/ EnvModemReplies
    \/ ESetATCmdStateIdle
    \/ EnvModemOn
    \/ EnvDSR

UploadSpec == Init /\ [][UploadNext]_vars

\* The bytes of payload P that the upload sends: no more than MAX_FILE_LEN.
Accepted(P) == SubSeq(P, 1, IF Len(P) > MAX_FILE_LEN THEN MAX_FILE_LEN ELSE Len(P))

\* The sum of the bytes of P modulo 2^16, from the number of times each
\* byte value occurs in P.
ByteCount(P, v) == Cardinality({ i \in 1..Len(P) : P[i] = v })

Sum16(P) == (ByteCount(P, 1) + 2 * ByteCount(P, 2) + 255 * ByteCount(P, 255)) % 65536

\* C13: the bytes written to the modem after READY are the bytes of the
\* payload P of the upload followed by the two bytes [sum_high, sum_low],
\* where sum is the sum of all bytes of P modulo 2^16.
C13_PayloadThenChecksum ==
    [][txBytes' # <<>> =>
          /\ subState = "SEND_READY_CMD"
          /\ txBytes' = Accepted(payload)
                          \o << Sum16(Accepted(payload)) \div 256,
                                Sum16(Accepted(payload)) % 256 >>]_vars

\* A payload of MAX_FILE_LEN bytes 0xFF, whose sum passes 2^16 seven times,
\* has been written.
C13_Witness ==
    /\ Len(txBytes) = MAX_FILE_LEN + 2
    /\ txBytes[1] = 255 /\ txBytes[2] = 255
    /\ subState = "SEND_DATA"


\* The reply line that the tick about to run completes: the bytes gathered
\* in the line buffer and the bytes received up to the first line feed.
LineArrives == \E i \in 1..Len(rxQueue) : rxQueue[i] = LINE_FEED

ReplyLine ==
    LET lf == CHOOSE i \in 1..Len(rxQueue) :
                  /\ rxQueue[i] = LINE_FEED
                  /\ \A j \in 1..(i - 1) : rxQueue[j] # LINE_FEED
    IN  byRxBuffer \o SubSeq(rxQueue, 1, lf - 1)

HasReady(line) ==
    \E i \in 1..(Len(line) - 5) :
        SubSeq(line, i, i + 5) = << "R", "E", "A", "D", "Y", CARRIAGE_RETURN >>

FirstByte(line, c) == Len(line) > 0 /\ line[1] = c

\* A tick reads the first reply line after AT+SBDWB, with the modem powered
\* and the response timer not expired.
ReadsFirstReply ==
    /\ ATCmdState = "AT_CMD_SENDING" /\ subState = "SEND_READY_CMD"
    /\ modemRunning
    /\ obs'.tick /\ ~obs'.respExpired
    /\ LineArrives
    /\ \A i \in 1..Len(byRxBuffer) : byRxBuffer[i] # NUL

WriteFails(code) ==
    /\ ATCmdState' = "AT_CMD_FAILED"
    /\ errorCodeRsp' = code
    /\ txBytes' = <<>>
    /\ sent' = <<>>

\* C14: after AT+SBDWB the first reply line decides: a line with READY and
\* <CR>, or a line whose first byte is '0', proceeds to sending the payload;
\* first byte '1', '2' or '3' fails with the timeout, bad-checksum or
\* bad-size code, and then no payload byte is sent.
C14_FirstReplyDecides ==
    [][ReadsFirstReply =>
          /\ HasReady(ReplyLine) \/ FirstByte(ReplyLine, "0") =>
                /\ ATCmdState' = "AT_CMD_SENDING" /\ subState' = "SEND_DATA"
                /\ Len(txBytes') = modemInfo.dwTxMsgLen + 2
          /\ ~HasReady(ReplyLine) /\ FirstByte(ReplyLine, "1") =>
                WriteFails("MEC_TX_BIN_DATA_TIMEOUT")
          /\ ~HasReady(ReplyLine) /\ FirstByte(ReplyLine, "2") =>
                WriteFails("MEC_TX_BIN_DATA_BAD_CHECKSUM")
          /\ ~HasReady(ReplyLine) /\ FirstByte(ReplyLine, "3") =>
                WriteFails("MEC_TX_BIN_DATA_BAD_SIZE")]_vars

\* The modem answered AT+SBDWB with the line "2" and the upload failed.
C14_Witness ==
    /\ obs.tick
    /\ ATCmdState = "AT_CMD_FAILED" /\ subState = "SEND_READY_CMD"
    /\ errorCodeRsp = "MEC_TX_BIN_DATA_BAD_CHECKSUM"
    /\ byRxBuffer = << "2", CARRIAGE_RETURN, NUL >>
    /\ txBytes = <<>>


\* --------------------------------------- the satellite session, byte by byte
\* The number of MT messages the scenario lets the driver count as queued.
MaxQueued == 3

\* The decimal digits of n.
RECURSIVE Dec(_)
Dec(n) ==
    LET d == << "0", "1", "2", "3", "4", "5", "6", "7", "8", "9" >>
    IN  IF n < 10 THEN << d[n + 1] >> ELSE Dec(n \div 10) \o << d[(n % 10) + 1] >>

\* A reply line of six fields under a heading, as the modem writes it.
FieldsLine(heading, f) ==
    << heading >> \o << " " >> \o Dec(f[1]) \o << ",", " " >> \o Dec(f[2])
        \o << ",", " " >> \o Dec(f[3]) \o << ",", " " >> \o Dec(f[4])
        \o << ",", " " >> \o Dec(f[5]) \o << ",", " " >> \o Dec(f[6])
        \o << CARRIAGE_RETURN, LINE_FEED >>

\* The replies of the modem to the command in flight: result codes, +SBDSX
\* lines with the ring-alert flag and the number queued, +SBDIX lines.
SessionReplies ==
    CASE subState = "SEND_STATUS_CMD" ->
            { FieldsLine("+SBDSX:", << 0, 124, 0, 42, ra, q >>) :
                ra \in 0..2, q \in { 0, 3 } }
      [] subState = "SEND_INITIATE_TRANSFER_CMD" ->
            { FieldsLine("+SBDIX:", << mo, 125, mt, 42, 12, q >>) :
                mo \in { 0, 16 }, mt \in { 0, 2 }, q \in { 0 } }
      [] OTHER -> { << "0" >>, << "4" >> }

SessionCalls == { "SendBinaryBuffer", "CheckMailbox", "CheckGateway" }

STick ==
    \E rsp \in IF ATCmdState = "AT_CMD_SENDING" THEN { "MR_PORT" }
               ELSE { "MR_WAITING", "MR_SUCCESS" },
       e \in BOOLEAN :
        Do(UpdateModemState(Cur, [NoInput EXCEPT !.rsp = rsp, !.thRespTimeOut = e]))

SDispatch == \E f \in SessionCalls : Call(EngineCall(Cur, f).st)

\* The layer above reads the MT status, which clears the ring-alert flag.
SGetSBDStatus ==
    /\ byMTStatus # "NO_MSG"
    /\ modemInfo.byMTQueueNbr < MaxQueued
    /\ Call(GetSBDStatus(Cur).st)

EnvSessionReplies ==
    /\ ATCmdState = "AT_CMD_SENDING"
    /\ rxQueue = <<>>
    /\ byRxBuffer = <<>>
    /\ \E line \in SessionReplies : Call([Cur EXCEPT !.rxQueue = line])

SessionNext ==
    \/ STick
    \/ SDispatch
    \/ EnvSessionReplies
    \/ ESetATCmdStateIdle
    \/ SGetSBDStatus
    \/ EnvModemOn
    \/ EnvDSR

SessionSpec == Init /\ [][SessionNext]_vars

\* A tick reads the result code '0' in sub-state sub, with the modem powered
\* and the response timer not expired.
ReadsOK(sub) ==
    /\ ATCmdState = "AT_CMD_SENDING" /\ subState = sub
    /\ modemRunning
    /\ obs'.tick /\ ~obs'.respExpired
    /\ rxQueue # <<>> /\ Head(rxQueue) = "0"

\* The step writes the command of the satellite session chosen by the
\* ring-alert flag, and arms the response timer with the satellite timeout.
DispatchesSession ==
    /\ Len(sent') = 1
    /\ sent'[1].cmd = IF modemInfo.byRAFlag = 1
                      THEN "AT_CMD_SBD_INITIATE_ALERT_SESSION"
                      ELSE "AT_CMD_SBD_INITIATE_SESSION"
    /\ sent'[1].lapse = "wSatelliteTimeout"
    /\ thRespTimeOut' # 0
    /\ ATCmdState' = "AT_CMD_SENDING" /\ subState' = "SEND_INITIATE_TRANSFER_CMD"

Sym(n) ==
    CASE n = 0 -> "x00" [] n = 1 -> "x01" [] n = 2 -> "x02" [] n = 3 -> "x03"
      [] n = 255 -> "xFF"

WordBytes(w) == << Sym(w \div 256), Sym(w % 256) >>

\* The 16-bit sum of the bytes of P.
RECURSIVE ByteSum(_)
ByteSum(P) ==
    IF P = <<>> THEN 0 ELSE (ByteVal(Head(P)) + ByteSum(Tail(P))) % 65536

\* The payloads of the MT messages of the scenario.
MTPayloads ==
    { <<>>, << "x01" >>, << "x02" >>, << "x01", "x02" >>, << "xFF", "x01" >> }

\* The reply of the modem to AT+SBDRB for payload P: the length, the
\* payload, the checksum (right or wrong), the result code.
MTFrame(P, good) ==
    WordBytes(Len(P)) \o P
        \o (IF good THEN WordBytes(ByteSum(P))
            ELSE WordBytes(IF ByteSum(P) = 0 THEN 1 ELSE 0))
        \o << "0" >>

MTFrames == { MTFrame(P, good) : P \in MTPayloads, good \in BOOLEAN }

\* The replies of the modem to the command in flight: the +SBDIX line that
\* announces an MT message of mtlen bytes, the reply to AT+SBDRB whole or
\* cut short, a result code.
ReadReplies ==
    CASE ATCmdState = "AT_CMD_RCVING" ->
            MTFrames \cup { SubSeq(F, 1, n) : F \in MTFrames, n \in 1..3 }
      [] subState = "SEND_INITIATE_TRANSFER_CMD" ->
            { FieldsLine("+SBDIX:", << 0, 125, 1, 42, mtlen, 0 >>) : mtlen \in 0..2 }
      [] OTHER -> { << "0" >> }

ReadCalls == { "CheckMailbox", "SendReadBinaryFileCmd" }

RTick ==
    \E rsp \in IF ATCmdState \in { "AT_CMD_SENDING", "AT_CMD_RCVING" }
               THEN { "MR_PORT" } ELSE { "MR_WAITING", "MR_SUCCESS" },
       e \in BOOLEAN,
       mtFile \in IF ATCmdState = "AT_CMD_RCVING"
                  THEN { "none", "saved", "open_err", "write_err" } ELSE { "none" } :
        Do(UpdateModemState(Cur, [NoInput EXCEPT !.rsp = rsp, !.thRespTimeOut = e,
                                                 !.mtFile = mtFile]))

RDispatch == \E f \in ReadCalls : Call(EngineCall(Cur, f).st)

\* The modem answers once per command: nothing of the reply has been read.
EnvReadReplies ==
    /\ ATCmdState \in { "AT_CMD_SENDING", "AT_CMD_RCVING" }
    /\ rxQueue = <<>>
    /\ byRxBuffer = <<>> \/ subState = "HANDLE_FINAL_RSP"
    /\ RxMsg = NoRxMsg
    /\ \E line \in ReadReplies : Call([Cur EXCEPT !.rxQueue = line])

ReadNext ==
    \/ RTick
    \/ RDispatch
    \/ EnvReadReplies
    \/ ESetATCmdStateIdle
    \/ EnvModemOn

ReadSpec == Init /\ [][ReadNext]_vars

\* A tick reads the whole reply of the modem to AT+SBDRB, of which nothing
\* was read before, with the modem powered and the response timer not
\* expired.
ReadsMTReply ==
    /\ ATCmdState = "AT_CMD_RCVING" /\ subState = "GET_DATA"
    /\ modemRunning
    /\ obs'.tick /\ ~obs'.respExpired
    /\ rxQueue \in MTFrames
    /\ RxMsg = NoRxMsg

\* The wire length L of the reply, its payload and its checksum.
WireL == WordOf(rxQueue[1], rxQueue[2])

WirePayload == SubSeq(rxQueue, WORD_SIZE + 1, WORD_SIZE + WireL)

WireChecksum == WordOf(rxQueue[WORD_SIZE + WireL + 1], rxQueue[WORD_SIZE + WireL + 2])

MTOutcome(st, code) == ATCmdState' = st /\ errorCodeRsp' = code

\* C16: a reply with L == 0 fails the read with MEC_RX_NO_MSG_WAITING, one
\* whose checksum differs from the sum of its payload fails it with
\* MEC_RX_BAD_CHECKSUM, and one with L > 0 and the right checksum succeeds
\* with the stored length equal to the mt_length of the session.
C16_ReadOutcome ==
    [][ReadsMTReply =>
          /\ WireL = 0 => MTOutcome("AT_CMD_FAILED", "MEC_RX_NO_MSG_WAITING")
          /\ WireChecksum # ByteSum(WirePayload) =>
                MTOutcome("AT_CMD_FAILED", "MEC_RX_BAD_CHECKSUM")
          /\ WireL > 0 /\ WireChecksum = ByteSum(WirePayload) =>
                /\ ATCmdState' = "AT_CMD_SUCCESS"
                /\ RxMsg'.wRxMsgLen = modemInfo.wMTLength]_vars

\* The same for the replies whose length is the mt_length of the session,
\* whose checksum is right and whose file, if any, is saved.
C16_ReadOutcomeOfAnnounced ==
    [][ReadsMTReply /\ WireL = modemInfo.wMTLength
            /\ WireChecksum = ByteSum(WirePayload)
            /\ errorCodeRsp' \notin { "MEC_FILE_OPEN_ERR", "MEC_FILE_WRITE_ERR" } =>
          /\ WireL = 0 => MTOutcome("AT_CMD_FAILED", "MEC_RX_NO_MSG_WAITING")
          /\ WireL > 0 =>
                /\ ATCmdState' = "AT_CMD_SUCCESS"
                /\ RxMsg'.wRxMsgLen = modemInfo.wMTLength]_vars

\* C17: the engine consumes the L + 4 bytes of the reply and then the
\* result code, and the sum it computes is that of the L payload bytes.
C17_ConsumesLPlus4 ==
    [][ReadsMTReply =>
          /\ ATCmdState' \in { "AT_CMD_SUCCESS", "AT_CMD_FAILED" }
          /\ Len(rxQueue) - Len(rxQueue') = WireL + WORD_SIZE * 2 + 1
          /\ wCalculatedCheckSum' = ByteSum(WirePayload)]_vars

\* The same for the replies whose length is the mt_length of the session.
C17_ConsumesAnnounced ==
    [][ReadsMTReply /\ WireL = modemInfo.wMTLength =>
          /\ ATCmdState' \in { "AT_CMD_SUCCESS", "AT_CMD_FAILED" }
          /\ Len(rxQueue) - Len(rxQueue') = WireL + WORD_SIZE * 2 + 1
          /\ wCalculatedCheckSum' = ByteSum(WirePayload)]_vars

\* The same when, besides, the count of the bytes read starts at zero.
C17_ConsumesAnnouncedFresh ==
    [][ReadsMTReply /\ WireL = modemInfo.wMTLength /\ wRxDataCount = 0 =>
          /\ ATCmdState' \in { "AT_CMD_SUCCESS", "AT_CMD_FAILED" }
          /\ Len(rxQueue) - Len(rxQueue') = WireL + WORD_SIZE * 2 + 1
          /\ wCalculatedCheckSum' = ByteSum(WirePayload)]_vars

\* A read starts with bytes of an earlier, abandoned read still counted.
StaleCount ==
    /\ ATCmdState = "AT_CMD_RCVING" /\ RxMsg = NoRxMsg /\ wRxDataCount > 0

\* ------------------------------------------ the +SBDIX reply, code by code
\* The MO status codes of the closed set, and those the scenario sends
\* besides: two reserved codes and one that is no code at all.
SBDIXClosedSet == (0..4) \cup (10..35)

SBDIXCodes == SBDIXClosedSet \cup { 5, 36, 99 }

\* The +SBDIX line for MO status mo, announcing one MT message of 2 bytes.
SBDIXLine(mo) == FieldsLine("+SBDIX:", << mo, 125, 1, 42, 2, 1 >>)

SbdixReplies ==
    IF subState = "SEND_INITIATE_TRANSFER_CMD"
    THEN { SBDIXLine(mo) : mo \in SBDIXCodes }
    ELSE { << "0" >>, << "4" >> }

XTick ==
    \E rsp \in IF ATCmdState = "AT_CMD_SENDING" THEN { "MR_PORT" }
               ELSE { "MR_WAITING", "MR_SUCCESS" },
       e \in BOOLEAN :
        Do(UpdateModemState(Cur, [NoInput EXCEPT !.rsp = rsp, !.thRespTimeOut = e]))

XCheckMailbox == Call(CheckMailbox(Cur).st)

EnvSbdixReplies ==
    /\ ATCmdState = "AT_CMD_SENDING"
    /\ rxQueue = <<>>
    /\ byRxBuffer = <<>> \/ subState = "HANDLE_FINAL_RSP"
    /\ \E line \in SbdixReplies : Call([Cur EXCEPT !.rxQueue = line])

SbdixNext ==
    \/ XTick
    \/ XCheckMailbox
    \/ EnvSbdixReplies
    \/ ESetATCmdStateIdle
    \/ EnvModemOn

SbdixSpec == Init /\ [][SbdixNext]_vars

\* A tick parses the +SBDIX line the modem sent, with the modem powered and
\* the response timer not expired.
ParsesSBDIX(mo) ==
    /\ ATCmdState = "AT_CMD_SENDING" /\ subState = "SEND_INITIATE_TRANSFER_CMD"
    /\ modemRunning
    /\ obs'.tick /\ ~obs'.respExpired
    /\ byRxBuffer = <<>>
    /\ rxQueue = SBDIXLine(mo)

\* The error code the table of the specification assigns to an MO status.
SBDIXTable(mo) ==
    CASE mo = 10 -> "MEC_SBDI_GSS_TIMEOUT"
      [] mo = 11 -> "MEC_SBDI_GSS_Q_FULL"
      [] mo = 12 -> "MEC_SBDI_MO_SEGMENT_ERR"
      [] mo = 13 -> "MEC_SBDI_INCOMPLETE_SESSION"
      [] mo = 14 -> "MEC_SBDI_SEGMENT_SIZE_ERR"
      [] mo = 15 -> "MEC_SBDI_GSS_ACCESS_DENIED"
      [] mo = 16 -> "MEC_SBDI_SBD_BLOCKED"
      [] mo = 17 -> "MEC_SBDI_ISU_TIMEOUT"
      [] mo = 18 -> "MEC_SBDI_RF_DROP"
      [] mo = 19 -> "MEC_SBDI_PROTOCOL_ERR"
      [] mo \in (20..31) \cup { 33, 34 } -> "MEC_SBDI_FAIL"
      [] mo = 32 -> "MEC_SBDI_NO_NETWORK_SERVICE"
      [] mo = 35 -> "MEC_SBDI_ISU_BUSY"

\* The exchange goes on to its final result code.
SessionParsedOK ==
    ATCmdState' = "AT_CMD_SENDING" /\ subState' = "HANDLE_FINAL_RSP"

\* C18: a +SBDIX reply takes the exchange on to its success exactly when
\* its MO status is in 0..4 (the result code '0' that follows completes it
\* with SUCCESS); every other status of the closed set fails the exchange
\* with the error code of the table, 20..31 and 33..34 with MEC_SBDI_FAIL;
\* status 16 fails it with MEC_SBDI_SBD_BLOCKED and reports SBD-blocked to
\* the system log, and no other status writes to the system log.
C18_SBDIXTable ==
    [][/\ \A mo \in SBDIXCodes :
            ParsesSBDIX(mo) =>
              /\ SessionParsedOK <=> (mo \in 0..4)
              /\ ATCmdState' # "AT_CMD_SUCCESS"
              /\ mo \in 0..4 => errorCodeRsp' = errorCodeRsp
              /\ mo \in SBDIXClosedSet \ (0..4) =>
                    /\ ATCmdState' = "AT_CMD_FAILED"
                    /\ errorCodeRsp' = SBDIXTable(mo)
              /\ sysLog' = IF mo = 16 THEN << "SYS_LOG_SBD_BLOCKED" >> ELSE <<>>
       /\ ReadsOK("HANDLE_FINAL_RSP") => ATCmdState' = "AT_CMD_SUCCESS"]_vars

\* The reply with MO status 16 has failed the exchange and has been
\* reported to the system log.
C18_Witness ==
    /\ obs.tick
    /\ ATCmdState = "AT_CMD_FAILED" /\ subState = "SEND_INITIATE_TRANSFER_CMD"
    /\ modemInfo.byMOStatus = 16
    /\ errorCodeRsp = "MEC_SBDI_SBD_BLOCKED"
    /\ sysLog = << "SYS_LOG_SBD_BLOCKED" >>

\* A reply with a status in 0..4 has been followed by '0': SUCCESS.
C18_SuccessReached ==
    /\ obs.tick
    /\ ATCmdState = "AT_CMD_SUCCESS" /\ subState = "HANDLE_FINAL_RSP"
    /\ modemInfo.byMOStatus = 4

\* --------------------------------------------------- the +SBDSX reply
\* A tick parses the +SBDSX line the modem sent, with the modem powered and
\* the response timer not expired.
ParsesSBDSX ==
    /\ ATCmdState = "AT_CMD_SENDING" /\ subState = "SEND_STATUS_CMD"
    /\ modemRunning
    /\ obs'.tick /\ ~obs'.respExpired
    /\ byRxBuffer = <<>>
    /\ rxQueue # <<>> /\ Head(rxQueue) = "+SBDSX:"

\* The result of the parse is SUCCESS exactly when afterwards the
\* ring-alert flag is 1 or the number of queued messages is not zero, and
\* FAILED otherwise; the number queued changes only when it was zero.
SBDSXResult ==
    /\ modemInfo.byMTQueueNbr # 0 =>
          modemInfo'.byMTQueueNbr = modemInfo.byMTQueueNbr
    /\ IF modemInfo'.byRAFlag = 1 \/ modemInfo'.byMTQueueNbr # 0
       THEN ATCmdState' = "AT_CMD_SENDING" /\ subState' = "HANDLE_FINAL_RSP"
       ELSE ATCmdState' = "AT_CMD_FAILED"

\* C19: parsing a +SBDSX reply changes, of the modem information, only the
\* ring-alert flag and, when it was zero, the number of queued messages;
\* the result is SUCCESS exactly when afterwards the flag is 1 or the
\* number is not zero.
C19_OnlyFlagAndQueue ==
    [][ParsesSBDSX =>
          /\ \A f \in DOMAIN modemInfo \ { "byRAFlag", "byMTQueueNbr" } :
                modemInfo'[f] = modemInfo[f]
          /\ SBDSXResult]_vars

\* The same without the message sequence numbers.
C19_ButSequenceNumbers ==
    [][ParsesSBDSX =>
          /\ \A f \in DOMAIN modemInfo \
                    { "byRAFlag", "byMTQueueNbr", "szMOMSN", "szMTMSN" } :
                modemInfo'[f] = modemInfo[f]
          /\ SBDSXResult]_vars

\* A +SBDSX reply has replaced the MO sequence number that the last
\* session had stored, 125, with its own.
SequenceNumberReplaced ==
    /\ obs.tick
    /\ subState = "SEND_STATUS_CMD"
    /\ modemInfo.wMTLength = 12
    /\ modemInfo.szMOMSN = << " ", "1", "2", "4" >>

\* ------------------------------------------- the signal-quality debounce
\* The reply of the modem to AT+CSQF with signal level n.
CSQLine(n) == << "+CSQF:" >> \o Dec(n) \o << CARRIAGE_RETURN, LINE_FEED >>

\* The probe of the signal quality is in flight.
ProbeInFlight ==
    /\ ModemCmd = "GETTING_CSQ"
    /\ ATCmdState = "AT_CMD_SENDING"
    /\ subState \in { "SEND_CSQ_CMD", "HANDLE_FINAL_RSP" }

CsqReplies ==
    IF subState = "SEND_CSQ_CMD"
    THEN { CSQLine(0), CSQLine(3), << "4" >> }
    ELSE { << "0" >> }

\* The tick of the API layer: the replies to the probe are read from the
\* port, those to the other commands are verdicts.
CTick ==
    \E rsp \in IF ProbeInFlight THEN { "MR_PORT" } ELSE { "MR_WAITING", "MR_SUCCESS" },
       e \in BOOLEAN, csq \in BOOLEAN :
        Do(ProcessModemStateMachine(Cur,
             [NoInput EXCEPT !.rsp = rsp, !.thRespTimeOut = e, !.thCheckCSQ = csq]))

EnvCsqReplies ==
    /\ ProbeInFlight
    /\ rxQueue = <<>>
    /\ byRxBuffer = <<>> \/ subState = "HANDLE_FINAL_RSP"
    /\ \E line \in CsqReplies : Call([Cur EXCEPT !.rxQueue = line])

CsqNext ==
    \/ CTick
    \/ EnvCsqReplies
    \/ EnvModemOn

CsqSpec == Init /\ [][CsqNext]_vars

\* A tick reads the reply of level 0 to the probe, with the modem powered
\* and the response timer not expired.
ProbeReportsLevel0 ==
    /\ ProbeInFlight /\ subState = "SEND_CSQ_CMD"
    /\ modemRunning
    /\ obs'.tick /\ ~obs'.respExpired
    /\ byRxBuffer = <<>>
    /\ rxQueue = CSQLine(0)

\* A tick reads the '0' that completes a probe reporting a level above 0.
ProbeSucceeds ==
    /\ ProbeInFlight /\ subState = "HANDLE_FINAL_RSP"
    /\ modemRunning
    /\ obs'.tick /\ ~obs'.respExpired
    /\ rxQueue = << "0" >>

\* C20: with three debounce retries, a probe that reports level 0 after
\* fewer than two failed probes in a row only counts; the third in a row
\* reports one Iridium error to the system log, clears the signal strength
\* to -1 and restarts the count; a probe that succeeds sets the count to 0;
\* the count changes in no other way than by a failed probe or a restart.
C20_ThirdLevel0Surfaces ==
    [][/\ ProbeReportsLevel0 =>
             IF byCSQDebounceCount = DEFAULT_CSQ_DEBOUNCE_RETRIES - 1
             THEN /\ sysLog' = << "SYS_LOG_IRIDIUM_ERROR" >>
                  /\ modemInfo'.iSignalStrength = -1
                  /\ byCSQDebounceCount' = 0
             ELSE /\ sysLog' = <<>>
                  /\ modemInfo'.iSignalStrength = 0
                  /\ byCSQDebounceCount' = byCSQDebounceCount + 1
       /\ ProbeSucceeds => byCSQDebounceCount' = 0 /\ sysLog' = <<>>
       /\ byCSQDebounceCount' \in { byCSQDebounceCount, 0 }
             \/ /\ byCSQDebounceCount' = byCSQDebounceCount + 1
                /\ ModemCmd = "GETTING_CSQ" /\ atCmdState' # "AT_CMD_SUCCESS"
       /\ sysLog' # <<>> =>
             /\ ModemCmd = "GETTING_CSQ"
             /\ byCSQDebounceCount = DEFAULT_CSQ_DEBOUNCE_RETRIES - 1]_vars

\* The third probe in a row that reported level 0 has been surfaced: no
\* exchange has failed in another way, which would have left an error code.
C20_Witness ==
    /\ obs.tick
    /\ atCmdState = "AT_CMD_FAILED" /\ errorCodeRsp = "MEC_NONE"
    /\ sysLog = << "SYS_LOG_IRIDIUM_ERROR" >>
    /\ modemInfo.iSignalStrength = -1
    /\ byCSQDebounceCount = 0

\* Two probes in a row have reported level 0.
C20_TwoCounted ==
    /\ obs.tick
    /\ byCSQDebounceCount = 2 /\ modemInfo.iSignalStrength = 0 /\ sysLog = <<>>

\* ------------------------------------------------ the signal strength kept
\* The scenario of the debounce, with a modem that also loses power.
SignalNext ==
    \/ CTick
    \/ EnvCsqReplies
    \/ EnvModemPower

SignalSpec == Init /\ [][SignalNext]_vars

\* A tick reads the reply of level n to the probe, with the modem powered
\* and the response timer not expired.
ProbeReportsLevel(n) ==
    /\ ProbeInFlight /\ subState = "SEND_CSQ_CMD"
    /\ modemRunning
    /\ obs'.tick /\ ~obs'.respExpired
    /\ byRxBuffer = <<>>
    /\ rxQueue = CSQLine(n)

\* The tick surfaces the failure of the probe that reaches the limit.
DebounceLimitReached ==
    /\ obs'.tick
    /\ ModemCmd = "GETTING_CSQ"
    /\ byCSQDebounceCount = DEFAULT_CSQ_DEBOUNCE_RETRIES - 1
    /\ atCmdState' \in { "AT_CMD_FAILED", "AT_CMD_TIMED_OUT" }
    /\ sysLog' = << "SYS_LOG_IRIDIUM_ERROR" >>

\* The tick finds the modem without power and clears what is known of it.
PowerLossCleared ==
    /\ obs'.tick
    /\ ~modemRunning
    /\ ATCmdState' = "AT_CMD_POWERED_DOWN"
    /\ modemInfo' = NoModemInfo

\* C21 (as stated): the signal strength is -1 exactly when the last probe
\* reported level 0 or the probes failed beyond the debounce limit: a probe
\* that reports level 0 leaves -1, and the value becomes -1 in no other
\* way than by such a report or at the limit.
C21_MinusOneIffLevel0 ==
    [][/\ ProbeReportsLevel(0) => modemInfo'.iSignalStrength = -1
       /\ modemInfo'.iSignalStrength = -1 /\ modemInfo.iSignalStrength # -1 =>
              ProbeReportsLevel(0) \/ DebounceLimitReached]_vars

\* C21 (amended): a probe that reports level 0 stores 0, and -1 only when
\* it is the failure that reaches the debounce limit; a probe that reports
\* a level from 1 to 5 stores that level; the signal strength becomes -1
\* only at the debounce limit or when the modem is found without power
\* (it is -1 from the start, before any probe), and it leaves -1 or takes
\* another level only by a probe that reports a level.
C21_MinusOneIffCleared ==
    [][/\ ProbeReportsLevel(0) =>
              modemInfo'.iSignalStrength =
                  IF byCSQDebounceCount = DEFAULT_CSQ_DEBOUNCE_RETRIES - 1
                  THEN -1 ELSE 0
       /\ ProbeReportsLevel(3) => modemInfo'.iSignalStrength = 3
       /\ modemInfo'.iSignalStrength # modemInfo.iSignalStrength =>
              IF modemInfo'.iSignalStrength = -1
              THEN DebounceLimitReached \/ PowerLossCleared
              ELSE ProbeReportsLevel(0) \/ ProbeReportsLevel(3)]_vars

\* The first probe after a good one has reported level 0: the signal
\* strength is 0 and the failure is counted, not surfaced.
C21_Witness ==
    /\ obs.tick
    /\ atCmdState = "AT_CMD_FAILED" /\ errorCodeRsp = "MEC_NONE"
    /\ modemInfo.iSignalStrength = 0
    /\ byCSQDebounceCount = 1
    /\ sysLog = <<>>

\* The probes failed beyond the limit by timeouts alone, after a good one.
C21_ClearedAtLimit ==
    /\ obs.tick
    /\ atCmdState = "AT_CMD_TIMED_OUT"
    /\ modemInfo.iSignalStrength = -1
    /\ sysLog = << "SYS_LOG_IRIDIUM_ERROR" >>

\* ------------------------------------------- the escalation of timeouts
\* The scenario: the modem is switched on and stays on and a voice call
\* begins and ends; the commands are those the API layer issues by itself
\* (the initialization, the probes of the aux board and of the signal
\* quality, the reset of the aux board); the commands to the modem succeed
\* or time out, the probe of the signal quality also fails, the commands
\* to the aux board succeed; the escalation timer runs out, and the power
\* manager cycles the power of the aux board or fails to.
EscInputs ==
    { in \in [rsp : { "MR_WAITING", "MR_SUCCESS", "MR_FAILED" },
              e : BOOLEAN, csq : BOOLEAN, esc : BOOLEAN, pcOk : BOOLEAN] :
        /\ in.rsp = "MR_FAILED" => ModemCmd = "GETTING_CSQ"
        /\ in.e => in.rsp = "MR_WAITING" /\ thRespTimeOut # 0
        /\ in.csq => modemState = "MODEM_IDLE" /\ ~dsr
        /\ in.esc => in.e \/ ATCmdState = "AT_CMD_TIMED_OUT"
        /\ ~in.pcOk => in.esc }

EscTick ==
    \E in \in EscInputs :
        Do(ProcessModemStateMachine(Cur,
             [NoInput EXCEPT !.rsp = in.rsp, !.thRespTimeOut = in.e,
                             !.thCheckCSQ = in.csq,
                             !.thTimeout = in.esc, !.pcOk = in.pcOk]))

EscNext ==
    \/ EscTick
    \/ EnvDSR
    \/ EnvModemOn

EscSpec == Init /\ [][EscNext]_vars

\* The calls of fn observed in a step.
CallsOf(c, fn) == { i \in 1..Len(c) : c[i].fn = fn }

\* C22: HandleTimeouts runs in every tick that processes the outcome of
\* the command in flight, with that outcome.  Whenever it runs, it cycles
\* the power of the aux board exactly when the outcome is TIMED_OUT, the
\* escalation timer has expired and no voice call is in progress; RESET_CIS
\* is pending after a power cycle that failed, and becomes pending in no
\* other way than that or as the reset of the aux board that did not
\* succeed and is queued again; the escalation timer is started again exactly when the
\* outcome is not TIMED_OUT or the timer has expired, and is then armed.
C22_Escalation ==
    [][LET c == calls'
           handled == CallsOf(c, "HandleTimeouts")
           expired == \E i \in CallsOf(c, "TimerExpired") : c[i].ret = "TRUE"
           cycled == CallsOf(c, "PowerCycleCIS")
           rearmed == CallsOf(c, "ResetTimer") # {}
           q == PendingOf(modemQBuff', wReadIndex', wWriteIndex')
       IN  /\ ProcessesOutcome =>
                 \E i \in handled : c[i].arg = atCmdState'
           /\ Cardinality(handled) <= 1 /\ Cardinality(cycled) <= 1
           /\ cycled # {} <=>
                 /\ \E i \in handled : c[i].arg = "AT_CMD_TIMED_OUT"
                 /\ expired
                 /\ ~dsr
           /\ \A i \in cycled : c[i].ret = "FALSE" => IsPending(q, "RESET_CIS")
           /\ IsPending(q, "RESET_CIS") /\ ~IsPending(Pending, "RESET_CIS") =>
                 \/ \E i \in cycled : c[i].ret = "FALSE"
                 \/ ModemCmd = "RESET_CIS" /\ atCmdState' # "AT_CMD_SUCCESS"
           /\ handled # {} =>
                 /\ rearmed <=>
                       \/ \E i \in handled : c[i].arg # "AT_CMD_TIMED_OUT"
                       \/ expired
                 /\ rearmed => thTimeout' # 0]_vars

\* A command timed out with the escalation timer expired and no voice
\* call: the power cycle of the aux board failed, RESET_CIS is pending and
\* the escalation timer is armed again.
C22_Witness ==
    /\ obs.tick
    /\ atCmdState = "AT_CMD_TIMED_OUT"
    /\ ~dsr
    /\ \E i \in CallsOf(calls, "PowerCycleCIS") : calls[i].ret = "FALSE"
    /\ CallsOf(calls, "ResetTimer") # {}
    /\ IsPending(Pending, "RESET_CIS")
    /\ thTimeout # 0

\* The escalation timer ran out during a voice call: no power cycle, and
\* the timer is started again.
C22_InVoiceCall ==
    /\ obs.tick
    /\ atCmdState = "AT_CMD_TIMED_OUT"
    /\ dsr
    /\ \E i \in CallsOf(calls, "TimerExpired") : calls[i].ret = "TRUE"
    /\ CallsOf(calls, "PowerCycleCIS") = {}
    /\ CallsOf(calls, "ResetTimer") # {}


\* ------------------------------------------------ the initialization
\* The scenario: the modem is switched on and the engine on its own runs
\* the initialization; the replies succeed, fail or do not come in time; a
\* voice call begins and ends at any moment; the layer above restarts the
\* initialization.
InitNext ==
    \/ EUpdateModemState
    \/ ESetATCmdStateInit
    \/ EnvDSR
    \/ EnvModemOn

InitSpec == Init /\ [][InitNext]_vars

\* The sub-states in which the engine stands between two steps of the
\* initialization, with the command to send next.
InitGates == { "SEND_MT_ALERT_CMD", "SEND_SBD_AUTOREG_CMD", "SEND_SBD_DOWNLOAD_CMD" }

AtInitGate == ATCmdState = "AT_CMD_INITTING" /\ subState \in InitGates

Initializing == ATCmdState \in { "AT_CMD_POWERED_DOWN", "AT_CMD_INITTING" }

CmdsSent(snt) == [i \in 1..Len(snt) |-> snt[i].cmd]

\* C23 (as stated): on a tick of the initialization that finds a voice
\* call in progress, the engine sends no command.
C23_NoCommandInCall ==
    [][obs'.tick /\ modemRunning /\ dsr /\ Initializing => sent' = <<>>]_vars

\* The gated part of C23: a tick that finds the engine between two steps
\* (or powered down with the modem running) during a voice call sends
\* nothing and leaves the engine where it is; without a voice call it
\* sends the command of the pending step, and no other.
C23_GatedSteps ==
    [][obs'.tick /\ modemRunning =>
         /\ AtInitGate /\ dsr =>
               sent' = <<>> /\ subState' = subState /\ ATCmdState' = ATCmdState
         /\ ATCmdState = "AT_CMD_POWERED_DOWN" /\ dsr =>
               sent' = <<>> /\ ATCmdState' = ATCmdState
         /\ AtInitGate /\ ~dsr =>
               CmdsSent(sent') =
                  << CASE subState = "SEND_MT_ALERT_CMD" -> "AT_CMD_SBD_ALERT"
                       [] subState = "SEND_SBD_AUTOREG_CMD" -> "AT_CMD_SBD_AUTO_REG"
                       [] OTHER -> "AT_CMD_SBD_INITIATE_SESSION" >>
         /\ ATCmdState = "AT_CMD_POWERED_DOWN" /\ ~dsr =>
               CmdsSent(sent') = << "AT_CMD_SERIAL_NBR" >>]_vars

\* The first session of the initialization has succeeded during a voice
\* call and the query of the revision was sent at once.
C23_RevisionInCall ==
    /\ obs.tick /\ dsr
    /\ ATCmdState = "AT_CMD_INITTING" /\ subState = "SEND_MODEM_VER_CMD"
    /\ CmdsSent(sent) = << "AT_CMD_REVISION" >>

\* The engine stands before the automatic registration with a voice call
\* in progress, the log has the entry of the call.
C23_Paused ==
    /\ obs.tick /\ dsr /\ bPrevVoiceState
    /\ ATCmdState = "AT_CMD_INITTING" /\ subState = "SEND_SBD_AUTOREG_CMD"
    /\ sent = <<>>


\* ------------------------------------------ the programming of the aux board
\* The scenario: the engine on its own, the modem off or on; the layer
\* above starts the programming of the aux board and acknowledges its
\* outcome; the aux board answers the commands and each line with a status
\* byte, or not in time, and loses and regains power.
ProgDispatch == Call(SendProgramCISCmd(Cur).st)

ProgNext ==
    \/ EUpdateModemState
    \/ ProgDispatch
    \/ ESetATCmdStateIdle
    \/ EnvCISPower
    \/ EnvModemOn

ProgSpec == Init /\ [][ProgNext]_vars

\* The tick reads a status byte N, n or F in answer to a line.
ProgRestart ==
    /\ obs'.tick /\ obs'.retried
    /\ ATCmdState = "AT_CMD_PGMING" /\ subState = "CIS_PGMING_RSP"

\* C24 (as stated): on a status byte N, n or F the engine sends the cancel
\* command, arms the response timer of the aux board, sets the index of
\* the lines back, sends the version check and then "reload flash".
C24_RestartFromVersionCheck ==
    [][ProgRestart =>
         /\ CmdsSent(sent') = << "CIS_CMD_CANCEL_LOAD_FLASH", "CIS_CMD_VERSION_CHECK",
                                 "CIS_CMD_LOAD_FLASH" >>
         /\ thCISRespTimeOut' # 0
         /\ cfgIndex' = 0]_vars

\* C24 (amended): on a status byte N, n or F the engine sends the cancel
\* command and then "reload flash", and no version check; the response
\* timer of the aux board is armed, the index of the lines is 0 and the
\* engine waits for the echo of "reload flash"; while it waits it sends
\* nothing and the index stays 0, and the tick after the echo sends the
\* line at the index, which is line 0, and moves the index by one.
C24_RestartFromReloadFlash ==
    [][/\ ProgRestart =>
            /\ CmdsSent(sent') = << "CIS_CMD_CANCEL_LOAD_FLASH", "CIS_CMD_LOAD_FLASH" >>
            /\ thCISRespTimeOut' # 0
            /\ cfgIndex' = 0
            /\ ATCmdState' = "AT_CMD_PGMING" /\ subState' = "START_CIS_PGMING_CMD"
       /\ obs'.tick /\ ATCmdState = "AT_CMD_PGMING"
          /\ subState = "START_CIS_PGMING_CMD" /\ ATCmdState' = "AT_CMD_PGMING" =>
            /\ cfgIndex' = cfgIndex
            /\ sent' = <<>>
       /\ obs'.tick /\ ATCmdState = "AT_CMD_PGMING" /\ subState = "CIS_PGMING_CMD"
          /\ ATCmdState' = "AT_CMD_PGMING" =>
            /\ CmdsSent(sent') = << "CIS_CONFIG_LINE" >>
            /\ cfgIndex' = cfgIndex + 1]_vars

\* A line was refused: the programming has started again with the cancel
\* command and "reload flash", the index of the lines is back at 0.
C24_Witness ==
    /\ obs.tick /\ obs.retried
    /\ ATCmdState = "AT_CMD_PGMING" /\ subState = "START_CIS_PGMING_CMD"
    /\ CmdsSent(sent) = << "CIS_CMD_CANCEL_LOAD_FLASH", "CIS_CMD_LOAD_FLASH" >>
    /\ cfgIndex = 0
    /\ thCISRespTimeOut # 0


\* ------------------------------------------- the loss of power, API layer
\* The entry err was written to the modem log in the last step.
Logged(c, err) ==
    \E i \in CallsOf(c, "RecordModemLogError") : c[i].arg = err

\* The API tick finds the engine POWERED_DOWN after the engine's tick while
\* the API layer is in another state.
PowerDownFound ==
    /\ obs'.tick
    /\ atCmdState' = "AT_CMD_POWERED_DOWN"
    /\ modemState # "MODEM_POWERED_DOWN"

\* C25: the API tick that finds the engine POWERED_DOWN while the API layer
\* is not writes MODEM_POWERED_DOWN to the modem log, and no other tick
\* does; it ends with the API layer POWERED_DOWN and every response slot
\* NO_RESP, or, when the queue held a command of the aux board that the
\* POWERED_DOWN case of the same tick dispatched, BUSY with POWERED_DOWN
\* as the state to return to and every slot but that command's NO_RESP.
C25_PowerDownForced ==
    [][/\ PowerDownFound =>
            /\ Logged(calls', "MODEMLOG_MODEM_POWERED_DOWN")
            /\ \/ /\ modemState' = "MODEM_POWERED_DOWN"
                  /\ ModemRsp' = NoRsp
               \/ /\ modemState' = "MODEM_BUSY"
                  /\ prevModemState' = "MODEM_POWERED_DOWN"
                  /\ ModemCmd' \in AuxCmds
                  /\ ModemRsp' = [NoRsp EXCEPT ![ModemCmd'] = "MR_WAITING"]
       /\ Logged(calls', "MODEMLOG_MODEM_POWERED_DOWN") => PowerDownFound]_vars

\* The modem lost power while the API layer waited for the signal quality:
\* the API layer is POWERED_DOWN, the log has the entry, all slots are
\* NO_RESP.
C25_Witness ==
    /\ obs.tick
    /\ atCmdState = "AT_CMD_POWERED_DOWN"
    /\ modemState = "MODEM_POWERED_DOWN"
    /\ Logged(calls, "MODEMLOG_MODEM_POWERED_DOWN")
    /\ ModemCmd = "GETTING_CSQ"
    /\ ModemRsp = NoRsp

\* The same with a query of the aux board pending: it was dispatched in
\* the tick that found the loss of power.
C25_DrainedInSameTick ==
    /\ obs.tick
    /\ atCmdState = "AT_CMD_POWERED_DOWN"
    /\ Logged(calls, "MODEMLOG_MODEM_POWERED_DOWN")
    /\ modemState = "MODEM_BUSY"
    /\ ModemRsp[ModemCmd] = "MR_WAITING"


\* ------------------------------------- the return from an aux command
\* The scenario: the application queries the ringer, with the modem off
\* and after the modem was switched on; the API layer queries the ringer
\* and the relays after the initialization; the aux board answers, refuses
\* or does not answer in time.
RestoreInputs ==
    { in \in [rsp : { "MR_WAITING", "MR_SUCCESS", "MR_FAILED" }, e : BOOLEAN] :
        /\ in.rsp = "MR_FAILED" => ATCmdState = "AT_CMD_PGMING"
        /\ in.e => in.rsp = "MR_WAITING" /\ thCISRespTimeOut # 0 }

RestoreTick ==
    \E in \in RestoreInputs :
        Do(ProcessModemStateMachine(Cur,
             [NoInput EXCEPT !.rsp = in.rsp, !.thCISRespTimeOut = in.e]))

RestoreNext ==
    \/ RestoreTick
    \/ AppRingerStatus
    \/ EnvModemOn

RestoreSpec == Init /\ [][RestoreNext]_vars

\* The commands of the aux board that are sent again when they fail.
RetriedAuxCmds == CISCmds \ { "UPLOAD_CIS_CONFIG", "CONFIGURE_CIS" }

CountIn(q, c) == Cardinality({ i \in 1..Len(q) : q[i] = c })

\* The API tick finds the aux command in flight finished.
AuxOutcome == ProcessesOutcome /\ ModemCmd \in RetriedAuxCmds

\* C26: a command of the aux board is dispatched from IDLE or from
\* POWERED_DOWN and prev_modem_state holds that state while the command is
\* in flight; the tick that finds the command finished puts the API layer
\* back in prev_modem_state; if the outcome is not SUCCESS, the command is
\* pending in the queue afterwards, exactly once, and if it is SUCCESS the
\* command is pending only if it was before.
C26_RestoredAndRequeued ==
    /\ [](modemState = "MODEM_BUSY" /\ ModemCmd \in RetriedAuxCmds =>
             prevModemState \in { "MODEM_IDLE", "MODEM_POWERED_DOWN" })
    /\ [][/\ obs'.tick /\ modemState' = "MODEM_BUSY" /\ ModemCmd' \in RetriedAuxCmds
             /\ (modemState # "MODEM_BUSY" \/ atCmdState' \in TerminalStates) =>
                prevModemState' =
                   IF atCmdState' = "AT_CMD_POWERED_DOWN" THEN "MODEM_POWERED_DOWN"
                   ELSE modemState
          /\ AuxOutcome =>
                /\ modemState' = prevModemState
                /\ atCmdState' # "AT_CMD_SUCCESS" =>
                      CountIn(PendingOf(modemQBuff', wReadIndex', wWriteIndex'),
                              ModemCmd) = 1
                /\ atCmdState' = "AT_CMD_SUCCESS" =>
                      CountIn(PendingOf(modemQBuff', wReadIndex', wWriteIndex'),
                              ModemCmd) = CountIn(Pending, ModemCmd)]_vars

\* A query of the ringer that was dispatched with the modem off has timed
\* out: the API layer is POWERED_DOWN again and the query is pending.
C26_Witness ==
    /\ obs.tick
    /\ atCmdState = "AT_CMD_TIMED_OUT"
    /\ ModemRsp["RINGER_STATUS"] = "MR_FAILED"
    /\ modemState = "MODEM_POWERED_DOWN" /\ prevModemState = "MODEM_POWERED_DOWN"
    /\ IsPending(Pending, "RINGER_STATUS")

\* A query of the ringer that was dispatched from IDLE has succeeded: the
\* API layer is IDLE again.
C26_BackToIdle ==
    /\ obs.tick
    /\ atCmdState = "AT_CMD_SUCCESS"
    /\ ModemRsp["RINGER_STATUS"] = "MR_SUCCESS"
    /\ modemState = "MODEM_IDLE"
    /\ ~IsPending(Pending, "RINGER_STATUS")


\* ------------------------------------------------ the retries of a file
\* The scenario: the outbox may hold a report file and sending may be
\* enabled; the device accepts or refuses the file; the modem may lose its
\* power and get it back; moving and deleting a file may fail when the
\* file has failed for the last time.
FileInputs ==
    { in \in [rsp : { "MR_WAITING", "MR_SUCCESS", "MR_FAILED" },
              fileAvail : BOOLEAN, delay : BOOLEAN,
              moveOk : BOOLEAN, delOk : BOOLEAN] :
        /\ in.rsp = "MR_FAILED" => ModemCmd = "TXING_FILE"
        /\ in.fileAvail => modemState = "MODEM_IDLE" /\ fileSends = 0
        /\ in.delay => thCheckRetryDelay # 0
        /\ ~in.moveOk => in.rsp = "MR_FAILED"
                         /\ byFileSendRetryCount = DEFAULT_RETRY_COUNT - 1
        /\ ~in.delOk => ~in.moveOk }

FileTick ==
    \E in \in FileInputs :
        Do(ProcessModemStateMachine(Cur,
               [NoInput EXCEPT !.rsp = in.rsp, !.fileAvail = in.fileAvail,
                               !.thCheckRetryDelay = in.delay,
                               !.moveOk = in.moveOk, !.delOk = in.delOk]))

FileNext ==
    \/ FileTick
    \/ AppEnableSending
    \/ EnvModemPower

FileSpec == Init /\ [][FileNext]_vars

\* The tick that ends the transmission of a file as FAILED or TIMED_OUT.
FileFailed ==
    /\ obs'.tick
    /\ modemState = "MODEM_BUSY" /\ ModemCmd = "TXING_FILE"
    /\ atCmdState' \in { "AT_CMD_FAILED", "AT_CMD_TIMED_OUT" }

\* C27 (as stated): the retries of a file are counted, delayed and ended
\* at the retry count, so that no file is dispatched more than
\* msg_max_retries times.
C27_NoFileSentMoreThanMax == fileSends <= DEFAULT_RETRY_COUNT

\* C27 (amended): after a file transmission ends FAILED or TIMED_OUT the
\* retry count is incremented; below the retry limit the retry delay is
\* armed, the file stays in the outbox and sending stays as it was; at
\* the limit the count is set back to 0, wait_for_incoming_calls() is
\* called and the file is moved to the error subdir, or deleted, and it
\* stays in the outbox if both fail.  A file whose retry is pending is
\* dispatched again only by a tick that finds the retry delay expired.
\* The count stays below the limit, and it is also set back to 0 by every
\* successful initialization, so the limit bounds the dispatches of a file
\* between two initializations and not over its stay in the outbox.
C27_RetriesCounted ==
    /\ [](byFileSendRetryCount < DEFAULT_RETRY_COUNT)
    /\ [][FileFailed
              => IF byFileSendRetryCount + 1 < DEFAULT_RETRY_COUNT
                 THEN /\ byFileSendRetryCount' = byFileSendRetryCount + 1
                      /\ thCheckRetryDelay' # 0
                      /\ fileSends' = fileSends
                      /\ bSendingEnabled' = bSendingEnabled
                 ELSE /\ byFileSendRetryCount' = 0
                      /\ thCheckRetryDelay' = 0
                      /\ ~bSendingEnabled'
                      /\ bSendingEnabled => thWaitForCalls' # 0
                      /\ CallsOf(calls', "MarkFileAsError") # {}
                      /\ fileSends' = 0
                           <=> \E i \in DOMAIN calls' :
                                   /\ calls'[i].fn \in { "MarkFileAsError",
                                                         "deleteFile" }
                                   /\ calls'[i].ret = "TRUE"]_vars
    /\ [][byFileSendRetryCount # 0 /\ fileSends' > fileSends
              => /\ thCheckRetryDelay # 0 /\ thCheckRetryDelay' = 0
                 /\ fileSends' = fileSends + 1
                 /\ byFileSendRetryCount' = byFileSendRetryCount
                 /\ ModemCmd' = "TXING_FILE"]_vars
    /\ [][modemState = "MODEM_INITTING" /\ modemState' = "MODEM_IDLE"
              => byFileSendRetryCount' = 0 /\ fileSends' = fileSends]_vars

\* The file has failed for the last time: the count is back to 0, the
\* file has been moved to the error subdir and sending is paused.
C27_Witness ==
    /\ obs.tick
    /\ fileSends = 0
    /\ byFileSendRetryCount = 0
    /\ ModemRsp["TXING_FILE"] = "MR_FAILED"
    /\ CallsOf(calls, "MarkFileAsError") # {}
    /\ ~bSendingEnabled /\ thWaitForCalls # 0

\* A file is dispatched for the sixth time: the modem was initialized
\* again while a retry was pending.
C27_SentOnceMore == fileSends = DEFAULT_RETRY_COUNT + 1


\* ------------------------------------- the retries of the initialization
\* The device has refused the command of a step of the initialization and
\* the engine goes on with the initialization.
StepRefused(subs) ==
    /\ ATCmdState = "AT_CMD_INITTING" /\ subState \in subs
    /\ obs'.tick /\ obs'.retried

AutoRegRefused == StepRefused({ "SEND_SBD_AUTOREG_RSP" })

SessionRefused == StepRefused({ "SEND_INITIATE_TRANSFER_CMD", "HANDLE_FINAL_RSP" })

\* C28 (as stated): a failure reply to AT+SBDAREG=1 (step 4) makes the
\* engine retry from AT+SBDMTA=0 (step 3), and a failure of the first
\* AT+SBDIX session (step 5) makes it retry from AT+SBDAREG=1 (step 4).
C28_RetryFromStepBefore ==
    [][/\ AutoRegRefused => subState' = "SEND_MT_ALERT_CMD"
       /\ SessionRefused => subState' = "SEND_SBD_AUTOREG_CMD"]_vars

\* C28 (amended): a failure reply to AT+SBDAREG=1 (step 4) makes the
\* engine send AT+SBDAREG=1 again, and a failure of the first AT+SBDIX
\* session (step 5) makes it send AT+SBDIX again: the tick that reads the
\* failure stops the response timer, sends nothing and puts the engine
\* before the step that failed, and the next tick outside a voice call
\* sends the command of that step and no other.  The initialization does
\* not end as FAILED in these steps.
C28_RetrySameStep ==
    /\ [][AutoRegRefused
              => /\ subState' = "SEND_SBD_AUTOREG_CMD"
                 /\ thRespTimeOut' = 0 /\ sent' = <<>>]_vars
    /\ [][SessionRefused
              => /\ subState' = "SEND_SBD_DOWNLOAD_CMD"
                 /\ thRespTimeOut' = 0 /\ sent' = <<>>]_vars
    /\ [][obs'.tick /\ modemRunning /\ ~dsr /\ ATCmdState = "AT_CMD_INITTING"
              => /\ subState = "SEND_SBD_AUTOREG_CMD"
                    => /\ CmdsSent(sent') = << "AT_CMD_SBD_AUTO_REG" >>
                       /\ subState' = "SEND_SBD_AUTOREG_RSP"
                 /\ subState = "SEND_SBD_DOWNLOAD_CMD"
                    => /\ CmdsSent(sent') = << "AT_CMD_SBD_INITIATE_SESSION" >>
                       /\ subState' = "SEND_INITIATE_TRANSFER_CMD"]_vars
    /\ [][obs'.tick /\ ATCmdState = "AT_CMD_INITTING"
              /\ subState \in { "SEND_SBD_AUTOREG_RSP", "SEND_INITIATE_TRANSFER_CMD",
                                "HANDLE_FINAL_RSP" }
              => ATCmdState' # "AT_CMD_FAILED"]_vars

\* The first session of the initialization was refused: the engine stands
\* before the session again, the response timer stopped.
C28_Witness ==
    /\ obs.tick /\ obs.retried
    /\ ATCmdState = "AT_CMD_INITTING" /\ subState = "SEND_SBD_DOWNLOAD_CMD"
    /\ thRespTimeOut = 0 /\ sent = <<>>

\* The automatic registration was refused: the engine stands before the
\* automatic registration again.
C28_AutoRegAgain ==
    /\ obs.tick /\ obs.retried
    /\ ATCmdState = "AT_CMD_INITTING" /\ subState = "SEND_SBD_AUTOREG_CMD"
    /\ thRespTimeOut = 0 /\ sent = <<>>


\* --------------------------------- the failures of the initialization
\* The scenario: the modem is switched on and off; the replies of the
\* initialization succeed, fail or do not come in time, and the first
\* session reports an MT message or none; the escalation timer may expire.
BootInputs ==
    { in \in [rsp : { "MR_WAITING", "MR_SUCCESS", "MR_FAILED" },
              e : BOOLEAN, mt : { "NO_MSG", "SUCCESSFUL_MSG" }, esc : BOOLEAN] :
        /\ in.rsp = "MR_FAILED" => ATCmdState = "AT_CMD_INITTING"
        /\ in.e => in.rsp = "MR_WAITING" /\ thRespTimeOut # 0
        /\ in.mt # "NO_MSG" => /\ in.rsp # "MR_WAITING"
                               /\ subState = "SEND_INITIATE_TRANSFER_CMD"
        /\ in.esc => in.e /\ thTimeout # 0 }

BootTick ==
    \E in \in BootInputs :
        Do(ProcessModemStateMachine(Cur,
               [NoInput EXCEPT !.rsp = in.rsp, !.thRespTimeOut = in.e,
                               !.mt = in.mt, !.thTimeout = in.esc]))

BootNext ==
    \/ BootTick
    \/ EnvModemPower

BootSpec == Init /\ [][BootNext]_vars

\* The API tick finds the initialization FAILED or TIMED_OUT.
InitEnded ==
    /\ obs'.tick
    /\ modemState = "MODEM_INITTING"
    /\ atCmdState' \in { "AT_CMD_FAILED", "AT_CMD_TIMED_OUT" }

HandleTimeoutsCalled(c, at) ==
    \E i \in CallsOf(c, "HandleTimeouts") : c[i].arg = at

\* C29: in API state INITTING, when the engine reports FAILED or
\* TIMED_OUT, handle_timeouts is called for that outcome, and then, if an
\* MT message is pending, the read of the message is dispatched and the
\* API is BUSY with RXING_FILE, otherwise the engine is re-initialized
\* (set_initting puts it back to the start of the initialization) and the
\* API remains INITTING.
C29_MailboxOrReinit ==
    [][InitEnded =>
         /\ HandleTimeoutsCalled(calls', atCmdState')
         /\ IF byMTStatus = "SUCCESSFUL_MSG"
            THEN /\ modemState' = "MODEM_BUSY" /\ ModemCmd' = "RXING_FILE"
                 /\ ATCmdState' = "AT_CMD_RCVING"
            ELSE /\ modemState' = "MODEM_INITTING"
                 /\ ATCmdState' = "AT_CMD_POWERED_DOWN"]_vars

\* What the code does: the read of the message is never dispatched,
\* because the engine is not IDLE; the record of the pending message is
\* consumed by the look at the mailbox, handle_timeouts is called and the
\* engine is re-initialized, whether an MT message is pending or not.
C29_AlwaysReinit ==
    [][InitEnded =>
         /\ HandleTimeoutsCalled(calls', atCmdState')
         /\ modemState' = "MODEM_INITTING"
         /\ ATCmdState' = "AT_CMD_POWERED_DOWN" /\ subState' = "SUBSTATE_NONE"
         /\ ModemCmd' = ModemCmd
         /\ byMTStatus' = "NO_MSG"
         /\ sent' = <<>>]_vars

\* The first session of the initialization has reported an MT message
\* and the query of the revision is in flight: a timeout of the query
\* ends the initialization with the message pending.
C29_PendingInInit ==
    /\ modemState = "MODEM_INITTING"
    /\ ATCmdState = "AT_CMD_INITTING" /\ subState = "SEND_MODEM_VER_CMD"
    /\ thRespTimeOut # 0
    /\ byMTStatus = "SUCCESSFUL_MSG"


\* -------------------------------------------- unexpected engine states
\* The engine states the API state st allows at the dispatch of a tick.
ExpectedIn(st) ==
    IF st = "MODEM_IDLE" THEN { "AT_CMD_IDLE" }
    ELSE { "AT_CMD_SUCCESS", "AT_CMD_FAILED", "AT_CMD_TIMED_OUT",
           "AT_CMD_SENDING", "AT_CMD_RCVING", "AT_CMD_PGMING" }

\* The scenario: the modem is switched on once; the application queries
\* the ringer; the aux board answers, refuses or does not answer in time,
\* and it loses and regains its power; a caller asks the engine for the
\* signal quality through the engine's own interface (Modem.h), past the
\* API layer.
EngineCSQ == Call(SendCSQCmd(Cur).st)

UnexpNext ==
    \/ RestoreTick
    \/ AppRingerStatus
    \/ EngineCSQ
    \/ EnvCISPower
    \/ EnvModemOn

UnexpSpec == Init /\ [][UnexpNext]_vars

\* The dispatch of an API tick finds the API IDLE or BUSY and the engine
\* in a state that API state does not allow.  The dispatch follows the
\* detection of a power-down, which has put the API in POWERED_DOWN when
\* the engine is observed POWERED_DOWN.
UnexpectedObserved ==
    /\ obs'.tick
    /\ modemState \in { "MODEM_IDLE", "MODEM_BUSY" }
    /\ atCmdState' # "AT_CMD_POWERED_DOWN"
    /\ atCmdState' \notin ExpectedIn(modemState)

\* C30: if the API is IDLE and the engine is observed in a state other
\* than IDLE, or the API is BUSY and the engine is observed in a state
\* other than SUCCESS, FAILED, TIMED_OUT, SENDING, RCVING or PGMING, the
\* API treats it as an unexpected response: it logs it, re-initializes
\* the engine and goes to INITTING; and it does so in no other case.
C30_UnexpectedForcesInit ==
    /\ [][UnexpectedObserved
              => /\ Logged(calls', "MODEMLOG_UNEXPECTED_RSP")
                 /\ modemState' = "MODEM_INITTING"
                 /\ ATCmdState' = "AT_CMD_POWERED_DOWN"
                 /\ subState' = "SUBSTATE_NONE"
                 /\ thRespTimeOut' = 0 /\ thCISRespTimeOut' = 0]_vars
    /\ [][Logged(calls', "MODEMLOG_UNEXPECTED_RSP") => UnexpectedObserved]_vars

\* An unexpected engine state was found and the initialization forced.
C30_Witness ==
    /\ obs.tick
    /\ Logged(calls, "MODEMLOG_UNEXPECTED_RSP")
    /\ modemState = "MODEM_INITTING"
    /\ ATCmdState = "AT_CMD_POWERED_DOWN"

\* The same, found while the API was IDLE.
C30_WitnessIdle ==
    /\ C30_Witness
    /\ atCmdState # "AT_CMD_IDLE" /\ ModemCmd = "NO_CMD"


\* --------------------------------------- no session during a voice call
\* The tick has sent a session command (AT+SBDIX or AT+SBDIXA).
SessionSent(snt) == \E i \in 1..Len(snt) : snt[i].cmd \in SatelliteCmds

\* C31: the engine never sends a satellite-session command (AT+SBDIX or
\* AT+SBDIXA) on a tick in which a voice call is in progress, whether
\* during the initialization, a mailbox check or the sending of a message.
C31_NoSessionInCall ==
    [][obs'.tick /\ dsr => ~SessionSent(sent')]_vars

\* The message of an upload is in the modem and the tick finds a voice
\* call in progress: the command has failed, the call is logged and no
\* session was started.
C31_Witness ==
    /\ obs.tick /\ dsr
    /\ ATCmdState = "AT_CMD_FAILED" /\ subState = "SEND_TEXT_MSG"
    /\ Logged(calls, "MODEMLOG_PHONE_OFF_HOOK")
    /\ sent = <<>>

\* Outside a voice call the session is started after the message.
C31_SessionStarted ==
    /\ obs.tick /\ ~dsr
    /\ ATCmdState = "AT_CMD_SENDING" /\ subState = "SEND_INITIATE_TRANSFER_CMD"
    /\ SessionSent(sent)


\* ----------------------------------------- the draining of the queue
\* The scenario: ticks keep occurring; the modem is switched on sooner or
\* later and stays on; the modem and the aux board, which stays powered,
\* answer every command at the next tick, the aux board with success or
\* with a refusal; the application asks for a hang-up, once while no
\* response to a hang-up is recorded.
DrainInputs ==
    { rsp \in { "MR_SUCCESS", "MR_FAILED" } :
        rsp = "MR_FAILED" => ATCmdState = "AT_CMD_PGMING" }

DrainTick ==
    \E rsp \in DrainInputs :
        \E u \in { ProcessModemStateMachine(Cur, [NoInput EXCEPT !.rsp = rsp]) } :
            Do(u)

AppHangupCall ==
    /\ ModemRsp["CALL_HANGUP"] = "MR_NO_RESP"
    /\ Call(HangupCall(Cur).st)

DrainModemOn ==
    /\ ~modemRunning
    /\ \E u \in { [Cur EXCEPT !.modemRunning = TRUE] } : Call(u)

DrainNext ==
    \/ DrainTick
    \/ AppHangupCall
    \/ DrainModemOn

\* The tick is enabled: some answer of the aux board makes it change the
\* state.
DrainTickEnabled ==
    \E rsp \in DrainInputs :
        ProcessModemStateMachine(Cur, [NoInput EXCEPT !.rsp = rsp]) # Cur

\* Weak fairness of the tick, WF_vars(DrainTick), with the enabledness of the
\* tick written as the state predicate DrainTickEnabled: the main loop calls
\* ProcessModemStateMachine on every pass.
DrainTickFair == []<>(~DrainTickEnabled) \/ []<><<DrainTick>>_vars

DrainSpec ==
    Init /\ [][DrainNext]_vars /\ WF_vars(DrainModemOn) /\ DrainTickFair

\* Command c is in flight: it was dispatched to the engine.
InFlight(c) == modemState = "MODEM_BUSY" /\ ModemCmd = c

\* The commands that are admitted to the queue in this scenario.
DrainCmds == { "RINGER_STATUS", "RELAY1_STATUS", "RELAY2_STATUS", "CALL_HANGUP" }

\* C32: every command admitted to the queue is eventually dispatched to
\* the engine and eventually has a terminal response, provided ticks keep
\* occurring and the aux board stays powered and answers.
C32_EventuallyServed ==
    \A c \in DrainCmds :
        /\ IsPending(Pending, c) ~> InFlight(c)
        /\ IsPending(Pending, c) ~> ModemRsp[c] \in { "MR_SUCCESS", "MR_FAILED" }

\* What holds for the commands of the aux board: a pending query of the
\* ringer or of a relay is eventually dispatched.
C32_AuxServed ==
    \A c \in DrainCmds \ { "CALL_HANGUP" } : IsPending(Pending, c) ~> InFlight(c)

\* What the code does with a hang-up taken from the queue while the API
\* is POWERED_DOWN: it leaves the queue and is not dispatched, and its
\* response stays WAITING.
C32_HangupDiscarded ==
    [][/\ obs'.tick /\ modemState = "MODEM_POWERED_DOWN"
       /\ atCmdState' = "AT_CMD_POWERED_DOWN"
       /\ Pending # <<>> /\ Pending[1] = "CALL_HANGUP"
       => /\ ~IsPending(PendingOf(modemQBuff', wReadIndex', wWriteIndex'),
                        "CALL_HANGUP")
          /\ ~InFlight("CALL_HANGUP")'
          /\ sent' = <<>>
          /\ ModemRsp'["CALL_HANGUP"] = "MR_WAITING"]_vars

\* The hang-up was discarded: with the API still POWERED_DOWN, no hang-up
\* is pending or in flight and its response is WAITING.
C32_HangupForgotten ==
    /\ obs.tick
    /\ modemState = "MODEM_POWERED_DOWN"
    /\ Pending = <<>>
    /\ ModemRsp["CALL_HANGUP"] = "MR_WAITING"


\* --------------------------------------------- the slots that are waiting
\* Command c is behind its response slot: it is in flight or pending.
Backed(c) == InFlight(c) \/ IsPending(Pending, c)

\* C33: whenever the response slot of a command is WAITING, the command is
\* the one in flight or is pending in the queue.
C33_WaitingIsBacked ==
    \A c \in MODEM_COMMANDS : ModemRsp[c] = "MR_WAITING" => Backed(c)

\* What holds: the slot of every command but the hang-up is WAITING only
\* while the command is in flight or pending.
C33_AuxWaitingIsBacked ==
    \A c \in MODEM_COMMANDS \ { "CALL_HANGUP" } :
        ModemRsp[c] = "MR_WAITING" => Backed(c)

\* The slot of the hang-up is left WAITING only by the tick that discards
\* it: from then on nothing is behind it.
C33_OnlyHangupUnbacked ==
    [][ /\ ModemRsp'["CALL_HANGUP"] = "MR_WAITING"
        /\ ~Backed("CALL_HANGUP")'
        /\ Backed("CALL_HANGUP")
        => /\ obs'.tick
           /\ modemState = "MODEM_POWERED_DOWN"
           /\ Pending[1] = "CALL_HANGUP" ]_vars


\* ------------------------------------------ the record of a pending message
\* A tick with the modem powered consumes the record of a pending MT
\* message: the record is cleared, and not by the reply to a further
\* session, which writes its own result.
MTConsumed ==
    /\ obs'.tick
    /\ modemRunning /\ modemRunning'
    /\ byMTStatus = "SUCCESSFUL_MSG"
    /\ byMTStatus' # "SUCCESSFUL_MSG"
    /\ subState # "SEND_INITIATE_TRANSFER_CMD"

\* The tick dispatches the read of the MT message.
ReadDispatched(snt) ==
    \E i \in 1..Len(snt) : snt[i].cmd = "AT_CMD_READ_BINARY_MSG"

\* C34: the record of a pending MT message is consumed only on a tick in
\* which the read of the message is dispatched, so that no pending message
\* is lost while the modem keeps its power.
C34_ConsumedOnlyOnDownload ==
    [][MTConsumed => ReadDispatched(sent')]_vars

\* What the code does: the record is also consumed, with no read
\* dispatched, by the tick of the initialization that finds the engine
\* FAILED or TIMED_OUT.
C34_ConsumedOrInitEnded ==
    [][MTConsumed =>
         \/ /\ ReadDispatched(sent')
            /\ modemState = "MODEM_IDLE"
            /\ modemState' = "MODEM_BUSY" /\ ModemCmd' = "RXING_FILE"
         \/ /\ InitEnded
            /\ sent' = <<>>
            /\ byMTStatus' = "NO_MSG"]_vars

\* A read of the message was dispatched for the pending message.
C34_Downloading ==
    /\ obs.tick
    /\ modemState = "MODEM_BUSY" /\ ModemCmd = "RXING_FILE"
    /\ ReadDispatched(sent)


\* ---------------------------------------------- the queue under many requests
\* The queueable commands in the order in which the application asks for
\* them in this scenario.
FillOrder ==
    << "RINGER_STATUS", "RELAY1_STATUS", "RELAY2_STATUS", "RINGER_OFF",
       "RINGER_ON", "RELAY1_ON", "RELAY1_OFF", "RELAY2_ON", "RELAY2_OFF",
       "UPLOAD_CIS_CONFIG", "CONFIGURE_CIS", "CALL_HANGUP" >>

\* Command c is in a slot of the queue or in flight.
Present(c) ==
    \/ InFlight(c)
    \/ \E byIndex \in 0..(MDM_Q_LEN - 1) : modemQBuff[byIndex] = c

\* The application asks for the first command of FillOrder that is neither
\* queued nor in flight; it makes its requests before the queue is first
\* drained.
AppRequestAux ==
    \E k \in 1..Len(FillOrder) :
        /\ wReadIndex = 0
        /\ ~Present(FillOrder[k])
        /\ \A j \in 1..(k - 1) : Present(FillOrder[j])
        /\ \E u \in { RequestAux(Cur, FillOrder[k]).st } : Call(u)

\* The modem stays off and the aux board answers every command, if it
\* answers at all.
FillTick ==
    \E u \in { ProcessModemStateMachine(Cur, [NoInput EXCEPT !.rsp = "MR_SUCCESS"]) } :
        Do(u)

FillNext ==
    \/ FillTick
    \/ AppRequestAux

FillSpec == Init /\ [][FillNext]_vars

\* The step admits command c to the queue: its request is refused or out
\* of turn, and it was not in a slot before.
Admits(c) ==
    /\ ~obs'.tick
    /\ ~Present(c)
    /\ ~InFlight(c)'
    /\ ModemRsp'[c] = "MR_WAITING"

\* C35: the queue never holds more than its ten slots, and an admitted
\* command is not overwritten or lost before it is drained: a command
\* that is admitted is pending after the step, and a pending command stays
\* pending until the tick that drains it from the head of the queue.
C35_NothingLost ==
    /\ [][Len(PendingOf(modemQBuff', wReadIndex', wWriteIndex')) <= MDM_Q_LEN]_vars
    /\ [][\A c \in AuxCmds :
            LET q == PendingOf(modemQBuff', wReadIndex', wWriteIndex')
            IN  /\ Admits(c) => IsPending(q, c)
                /\ IsPending(Pending, c) /\ ~IsPending(q, c)
                     => obs'.tick /\ Pending[1] = c]_vars

\* The slots that hold a command are the pending ones.
QueueIntact ==
    \A byIndex \in 0..(MDM_Q_LEN - 1) :
        modemQBuff[byIndex] # "NO_CMD"
            <=> (byIndex - wReadIndex + MDM_Q_LEN) % MDM_Q_LEN < Len(Pending)

\* What holds: nothing is lost by a step that starts with fewer than nine
\* commands pending and no slot overwritten.
C35_NothingLostBelowNine ==
    [][QueueIntact /\ Len(Pending) < MDM_Q_LEN - 1 =>
         \A c \in AuxCmds :
            LET q == PendingOf(modemQBuff', wReadIndex', wWriteIndex')
            IN  /\ Admits(c) => IsPending(q, c)
                /\ IsPending(Pending, c) /\ ~IsPending(q, c)
                     => obs'.tick /\ Pending[1] = c]_vars

\* Nine commands are pending and one is in flight.
C35_NinePending ==
    /\ Len(Pending) = MDM_Q_LEN - 1
    /\ modemState = "MODEM_BUSY"

\* The tenth admission wrapped the write index onto the read index: every
\* slot holds a command and none is pending.
C35_AllLost ==
    /\ Pending = <<>>
    /\ \A byIndex \in 0..(MDM_Q_LEN - 1) : modemQBuff[byIndex] # "NO_CMD"


\* ----------------------------------------------- timers and the idle engine
\* The engine states in which a command is in flight, the initialization
\* included.
CommandStates == InFlightStates \cup { "AT_CMD_INITTING" }

\* C36: the engine enters TIMED_OUT only from a state in which a command is
\* in flight, and neither timer is armed while the engine is IDLE or
\* POWERED_DOWN, also after ResetModem and after a loss of modem power.
C36_TimersOnlyInFlight ==
    /\ [][ATCmdState' = "AT_CMD_TIMED_OUT" /\ ATCmdState # "AT_CMD_TIMED_OUT"
            => ATCmdState \in CommandStates]_vars
    /\ [](ATCmdState \in { "AT_CMD_IDLE", "AT_CMD_POWERED_DOWN" }
            => thRespTimeOut = 0 /\ thCISRespTimeOut = 0)

\* What holds: the modem timer is never armed while the engine is IDLE or
\* POWERED_DOWN and the aux timer never while it is IDLE; the aux timer is
\* left armed without an aux command in flight only by ResetModem; the
\* engine enters TIMED_OUT from a state with a command in flight or by the
\* expiry of such an aux timer.
C36_ModemTimerOnlyInFlight ==
    /\ [](ATCmdState \in { "AT_CMD_IDLE", "AT_CMD_POWERED_DOWN" }
            => thRespTimeOut = 0)
    /\ [](ATCmdState = "AT_CMD_IDLE" => thCISRespTimeOut = 0)
    /\ [][/\ ATCmdState' # "AT_CMD_PGMING" /\ thCISRespTimeOut' # 0
          /\ ~(ATCmdState # "AT_CMD_PGMING" /\ thCISRespTimeOut # 0)
          => ret'.fn = "ResetModem" /\ ret'.ok]_vars
    /\ [][ATCmdState' = "AT_CMD_TIMED_OUT" /\ ATCmdState # "AT_CMD_TIMED_OUT"
            => \/ ATCmdState \in CommandStates
               \/ thCISRespTimeOut # 0 /\ obs'.cisExpired]_vars

\* ResetModem was called with an aux command in flight: the engine is
\* POWERED_DOWN and the aux timer is armed.
C36_ArmedAfterReset ==
    /\ ret.fn = "ResetModem" /\ ret.ok
    /\ ATCmdState = "AT_CMD_POWERED_DOWN"
    /\ thCISRespTimeOut # 0

\* The aux timer expired with no command in flight.
C36_TimedOutWhenResting ==
    /\ obs.tick /\ obs.cisExpired
    /\ ATCmdState = "AT_CMD_TIMED_OUT"
    /\ subState = "SUBSTATE_NONE"


\* ------------------------------------------- the end of the aux programming
\* The engine state after the tick that reads b from the aux board, with no
\* timer expired.
AfterProgByte(b) ==
    UpdateModemState(Cur, [NoInput EXCEPT !.progByte = b]).ATCmdState

\* C37: while the lines of the configuration are programmed, with the aux
\* board powered, the command ends FAILED exactly when the tick reads one
\* of M, O, E, e, H, and ends SUCCESS exactly when it reads 'a' followed by
\* 'C' or when there is no further line to send; any other byte leaves the
\* command in flight.
C37_ProgrammingOutcome ==
    ATCmdState = "AT_CMD_PGMING" /\ cisPowered =>
        /\ subState = "CIS_PGMING_RSP" =>
             \A b \in ProgBytes :
                /\ AfterProgByte(b) = "AT_CMD_FAILED" <=> b \in { "M", "O", "E", "e", "H" }
                /\ AfterProgByte(b) = "AT_CMD_SUCCESS" <=> b = "aC"
                /\ AfterProgByte(b) \in { "AT_CMD_FAILED", "AT_CMD_SUCCESS", "AT_CMD_PGMING" }
        /\ subState = "CIS_PGMING_CMD" =>
             /\ AfterProgByte("none") = "AT_CMD_SUCCESS" <=> cfgIndex >= MaxCfgLines
             /\ AfterProgByte("none") \in { "AT_CMD_SUCCESS", "AT_CMD_PGMING" }

\* A status byte has ended the programming with a failure.
C37_Witness ==
    /\ obs.tick
    /\ ATCmdState = "AT_CMD_FAILED" /\ subState = "CIS_PGMING_RSP"
    /\ sysLog = << "SYS_LOG_REMOTE_CONFIG_FAILED_CISCFG" >>

\* The programming has ended with success after the last line, on 'a'
\* followed by 'C'.
C37_UploadSuccessful ==
    /\ obs.tick
    /\ ATCmdState = "AT_CMD_SUCCESS" /\ subState = "CIS_PGMING_RSP"
    /\ cfgIndex = MaxCfgLines

\* The programming has ended with success because no line was left.
C37_NoMoreLines ==
    /\ obs.tick
    /\ ATCmdState = "AT_CMD_SUCCESS" /\ subState = "CIS_PGMING_CMD"


\* ------------------------------------------------ the assembly of a line
\* The bytes that arrive together: a run of bytes without a meaning, or
\* the byte the parser of the exchange waits for: <LF> ends a reply of the
\* modem, ':' ends the echo of an aux command and <CR> the line after it.
LineChunks ==
    { [i \in 1..n |-> "x"] : n \in { 1, 7, 32 } }
        \cup { << IF cisPort = "DATA_PORT" THEN LINE_FEED
                  ELSE IF bFoundFirstEOL THEN CARRIAGE_RETURN ELSE ":" >> }

\* An exchange starts: the command that is sent clears the buffers and
\* routes the port to the modem or to the aux board.
LineStart ==
    \E portState \in { "DATA_PORT", "PROGRAMMING_PORT" } :
        \E u \in { ClearBuffers(Cur, portState) } : Call(u)

\* The line of the exchange is complete: the reader has returned TRUE.
LineComplete == ret.ok

\* Bytes arrive while the line of the exchange is incomplete.
LineArrive ==
    /\ ~LineComplete
    /\ rxQueue = <<>>
    /\ \E chunk \in LineChunks :
        \E u \in { [Cur EXCEPT !.rxQueue = chunk] } : Call(u)

\* The parser of the exchange reads what has arrived: a reply of the modem
\* is a line that ends with <LF>, a reply of the aux board is the echo up
\* to ':' and a line that ends with <CR>.
LineRead ==
    /\ ~LineComplete
    /\ rxQueue # <<>>
    /\ \E r \in { IF cisPort = "PROGRAMMING_PORT"
                  THEN GetDualResponse(Cur, ":", CARRIAGE_RETURN)
                  ELSE GetResponseBuffer(Cur, LINE_FEED) } :
        Commit([r.st EXCEPT !.obs = NoObs,
                            !.ret = [fn |-> "GetResponseBuffer", ok |-> r.ok]])

\* The error code is read by the layer above.
LineGetErrorCodeRsp ==
    /\ errorCodeRsp # "MEC_NONE"
    /\ \E u \in { [GetErrorCodeRsp(Cur) EXCEPT !.ret = ret] } : Commit(u)

LineNext ==
    \/ LineStart
    \/ LineArrive
    \/ LineRead
    \/ LineGetErrorCodeRsp

LineSpec == Init /\ [][LineNext]_vars

\* The step reads the bytes that have arrived.
LineReads == ret'.fn = "GetResponseBuffer" /\ rxQueue # <<>> /\ ~ret.ok

\* The bytes to read do not fit: the buffer is found full when a byte is
\* read (a reply of the modem) or after a byte is stored (a reply of the
\* aux board).
LineOverflows ==
    IF cisPort = "PROGRAMMING_PORT"
    THEN Len(byRxBuffer) + Len(rxQueue) >= MAX_CMD_LINE_LEN
    ELSE Len(byRxBuffer) + Len(rxQueue) > MAX_CMD_LINE_LEN

\* C38: when the line buffer overflows the index goes back to 0, the error
\* MEC_RX_BUFFER_OVERFLOW is recorded and the reading goes on: every byte
\* that has arrived is read; without an overflow the error code is left
\* alone; and no byte is ever stored at or past index MAX_CMD_LINE_LEN.
C38_OverflowWraps ==
    /\ [][LineReads =>
            /\ rxQueue' = <<>> \/ ret'.ok
            /\ CallsOf(calls', "StoreRxByte") = {}
            /\ Len(byRxBuffer') <= MAX_CMD_LINE_LEN
            /\ IF LineOverflows
               THEN /\ errorCodeRsp' = "MEC_RX_BUFFER_OVERFLOW"
                    /\ Len(byRxBuffer') < Len(byRxBuffer) + Len(rxQueue)
                    /\ Len(byRxBuffer') <= Len(rxQueue)
               ELSE errorCodeRsp' = errorCodeRsp]_vars
    /\ [](Len(byRxBuffer) <= MAX_CMD_LINE_LEN)

\* A reply of the modem has overflowed the buffer and the reading went on.
C38_Witness ==
    /\ ret.fn = "GetResponseBuffer"
    /\ cisPort = "DATA_PORT"
    /\ errorCodeRsp = "MEC_RX_BUFFER_OVERFLOW"
    /\ byRxBuffer # <<>>
    /\ rxQueue = <<>>

\* A reply of the aux board has overflowed the buffer.
C38_DualOverflow ==
    /\ ret.fn = "GetResponseBuffer"
    /\ cisPort = "PROGRAMMING_PORT"
    /\ errorCodeRsp = "MEC_RX_BUFFER_OVERFLOW"

\* The last slot of the buffer holds the NUL that ends the line.
C38_FullLine ==
    /\ ret.fn = "GetResponseBuffer" /\ ret.ok
    /\ Len(byRxBuffer) = MAX_CMD_LINE_LEN


\* ------------------------------------------------ voice calls in the log
\* The main loop with a telephone: the handset is lifted and put back, the
\* modem loses and regains power, and every pass of the loop writes an entry
\* of the record queue to the log.
Range(q) == { q[i] : i \in 1..Len(q) }

\* ModemLog.c, RecordModemLogError: a code that waits in the record queue is
\* not recorded again. l is the record queue with the count of hook entries.
RecordOne(l, errCode) ==
    IF errCode \in Range(l.q) THEN l
    ELSE [q |-> Append(l.q, errCode),
          h |-> CASE errCode = "MODEMLOG_PHONE_OFF_HOOK" ->
                       [l.h EXCEPT !.off = @ + 1]
                  [] errCode = "MODEMLOG_PHONE_BACK_ON_HOOK" ->
                       [l.h EXCEPT !.on = @ + 1]
                  [] OTHER -> l.h]

RECURSIVE RecordAll(_, _)
RecordAll(l, c) ==
    IF c = <<>> THEN l
    ELSE RecordAll(IF Head(c).fn = "RecordModemLogError"
                   THEN RecordOne(l, Head(c).arg) ELSE l,
                   Tail(c))

\* The state after a tick, with the entries the tick recorded in the queue.
WithRecords(u) ==
    LET l == RecordAll([q |-> u.recordQ, h |-> u.hookLog], u.calls)
    IN  [u EXCEPT !.recordQ = l.q, !.hookLog = l.h]

\* The modem answers every command but the question for the state of the
\* call, which it may leave without an answer until the timer runs out.
HookInputs ==
    { [NoInput EXCEPT !.rsp = IF e THEN "MR_WAITING" ELSE "MR_SUCCESS",
                      !.thRespTimeOut = e, !.thCheckCallStatus = dsr] :
        e \in Dom(modemState = "MODEM_BUSY" /\ ModemCmd = "CALL_STATUS"
                    /\ thRespTimeOut # 0,
                  BOOLEAN, FALSE) }

\* ModemLog.c: the main loop writes the oldest entry of the record queue and
\* frees its slot.
MonitorModemLogErrors(s) ==
    IF s.recordQ = <<>> THEN s ELSE [s EXCEPT !.recordQ = Tail(@)]

\* A pass of the main loop: the tick of the modem, then the log.
HookTick ==
    \E in \in HookInputs :
        \E u \in { ProcessModemStateMachine(Cur, in) } :
            Do(MonitorModemLogErrors(WithRecords(u)))

\* The handset is lifted or put back, a tick after the last change of the
\* lines: the count of the entries of that edge starts again.
HookDSR ==
    /\ obs.tick
    /\ modemRunning
    /\ Call([Cur EXCEPT !.dsr = ~@,
                        !.hookLog = IF dsr
                                    THEN [@ EXCEPT !.on = 0, !.ended = TRUE]
                                    ELSE [@ EXCEPT !.off = 0]])

\* The modem loses or regains power while no call is in progress.
HookModemPower ==
    /\ obs.tick
    /\ ~dsr
    /\ Call([Cur EXCEPT !.modemRunning = ~@])

HookNext ==
    \/ HookTick
    \/ HookDSR
    \/ HookModemPower

HookSpec == Init /\ [][HookNext]_vars

\* C39: for each voice call that begins and ends, exactly one entry "phone
\* off hook" is recorded for the rising edge of DSR and exactly one entry
\* "phone back on hook" for the falling edge, whichever layer sees the edge
\* and however many ticks the call lasts: when the call ends it has one
\* off-hook entry, and when the next call begins the call before it has one
\* on-hook entry.
C39_OncePerEdge ==
    [][ /\ (dsr /\ ~dsr') => hookLog.off = 1
        /\ (~dsr /\ dsr' /\ hookLog.ended) => hookLog.on = 1 ]_vars

\* C39, the two entries: a call that ends has no more than one off-hook
\* entry, and no more than one on-hook entry follows it.
C39_NeverTwice == hookLog.off <= 1 /\ hookLog.on <= 1

\* C39, the entry is there: a call that ends has an off-hook entry.
C39_NeverMissing == [][ (dsr /\ ~dsr') => hookLog.off >= 1 ]_vars

\* C39, what holds: a layer records an edge when it sees it for the first
\* time, so that a call has no more than one entry of each kind from each
\* of the two layers.
C39_OncePerLayer ==
    /\ hookLog.off <= 2 /\ hookLog.on <= 2
    /\ [][ /\ hookLog'.off > hookLog.off =>
                 /\ dsr
                 /\ \/ ~bPrevVoiceState /\ bPrevVoiceState'
                    \/ ~bPrevHookState /\ bPrevHookState'
           /\ hookLog'.on > hookLog.on =>
                 /\ ~dsr
                 /\ \/ bPrevVoiceState /\ ~bPrevVoiceState'
                    \/ bPrevHookState /\ ~bPrevHookState' ]_vars

\* C39, the entries that are recorded twice and the entry that is missing.
C39_OnHookTwice == ~dsr /\ hookLog.on = 2

C39_EndedUnrecorded == ~dsr /\ hookLog.ended /\ hookLog.off = 0 /\ obs.tick


\* ------------------------------------------ the progress of the MT read
\* C40: at every dispatch of the read of the MT message the progress of the
\* reception is fresh: no byte of the reply is counted as consumed and the
\* accumulated checksum is zero, also when the read before ended by a
\* timeout after a part of its reply had arrived.
C40_FreshAtDispatch ==
    ReadDispatched(sent) => wRxDataCount = 0 /\ wCalculatedCheckSum = 0

\* C40, what holds: at every dispatch the checksum is zero and the message
\* buffer is cleared; the count of the bytes consumed is zero at a dispatch
\* unless a read before it was abandoned with a part of its reply consumed.
C40_ChecksumFreshAtDispatch ==
    ReadDispatched(sent) => wCalculatedCheckSum = 0 /\ RxMsg = NoRxMsg

\* The count changes only in the tick that reads the reply, and goes back to
\* zero only when the whole reply has been consumed.
C40_CountKeptUntilComplete ==
    [][wRxDataCount' # wRxDataCount =>
          /\ ATCmdState = "AT_CMD_RCVING" /\ obs'.tick
          /\ wRxDataCount' = 0 =>
                ATCmdState' \in { "AT_CMD_SUCCESS", "AT_CMD_FAILED" }]_vars

\* A read is dispatched with bytes of the read before it still counted.
C40_StaleAtDispatch == ReadDispatched(sent) /\ wRxDataCount > 0

\* A read is dispatched with nothing counted.
C40_FreshDispatch == ReadDispatched(sent) /\ wRxDataCount = 0

====
